---------------------------- MODULE Spec2Model ----------------------------
(***************************************************************************)
(* A model of the Meshtastic BBS: the record store (db_operations.py), the *)
(* replication fan-out (utils.py), the receive handler and command router  *)
(* (message_processing.py) and the conversation step handlers              *)
(* (command_handlers.py).                                                  *)
(*                                                                         *)
(* Text is modelled as a sequence of one-character strings.  Strings that  *)
(* the program never looks into and that contain no delimiter (a uuid4, a  *)
(* node id such as "!a1b2c3d4") are one symbol of such a sequence.         *)
(* Creation timestamps are not modelled: no operation reads them back      *)
(* except to display them.                                                 *)
(*                                                                         *)
(* A handler is an operator from a world record to a world record; the     *)
(* world holds the node's store, the node's session map, the ordered list  *)
(* of effects of the handler (commits and sendText calls), the uuid source *)
(* and the exception, if any, that is propagating.                         *)
(***************************************************************************)
EXTENDS Integers, Sequences, FiniteSets, TLC

VARIABLES
    db,            \* node -> the three tables of bulletins.db and their AUTOINCREMENT counters
    user_states,   \* node -> (address -> session): utils.user_states of that process
    bbs_nodes,     \* node -> interface.bbs_nodes, the configured peer list
    allowed_nodes, \* node -> interface.allowed_nodes, the Urgent board allow-list
    links,         \* <<from, to>> -> replication lines in flight on that link, oldest first
    uuid,          \* number of keys minted so far by uuid.uuid4() in the whole federation
    trace,         \* the ordered effects of the most recent handler invocation
    last,          \* the packet handled by the most recent on_receive and what it met
    hist           \* history of the federation: keys created / deleted at their origin

vars == <<db, user_states, bbs_nodes, allowed_nodes, links, uuid, trace, last, hist>>

-----------------------------------------------------------------------------
(* Bounds of the model.                                                    *)

MaxKeys == 2        \* keys minted by uuid4 in a run
MaxRows == 2        \* rows ever inserted into the mail table, or the bulletins table, of a node
MaxChannels == 1    \* rows ever inserted into the channels table of a node
MaxBody == 1        \* body lines accumulated by one composition
MaxQueue == 2       \* replication lines in flight on one link

-----------------------------------------------------------------------------
(* Text.                                                                   *)

UpperChars == <<"A","B","C","D","E","F","G","H","I","J","K","L","M",
                "N","O","P","Q","R","S","T","U","V","W","X","Y","Z">>
LowerChars == <<"a","b","c","d","e","f","g","h","i","j","k","l","m",
                "n","o","p","q","r","s","t","u","v","w","x","y","z">>
DigitChars == <<"0","1","2","3","4","5","6","7","8","9">>
SpaceChars == {" ", "\n"}

IsUpper(c) == \E i \in 1..26 : UpperChars[i] = c
IsLower(c) == \E i \in 1..26 : LowerChars[i] = c
IsDigit(c) == \E i \in 1..10 : DigitChars[i] = c

LowerChar(c) == IF IsUpper(c) THEN LowerChars[CHOOSE i \in 1..26 : UpperChars[i] = c] ELSE c
UpperChar(c) == IF IsLower(c) THEN UpperChars[CHOOSE i \in 1..26 : LowerChars[i] = c] ELSE c

\* str.lower()
Lower(t) == [i \in 1..Len(t) |-> LowerChar(t[i])]

\* str.capitalize()
Capitalize(t) == [i \in 1..Len(t) |-> IF i = 1 THEN UpperChar(t[i]) ELSE LowerChar(t[i])]

RECURSIVE LStrip(_)
LStrip(t) == IF t # <<>> /\ Head(t) \in SpaceChars THEN LStrip(Tail(t)) ELSE t

RECURSIVE RStrip(_)
RStrip(t) == IF t # <<>> /\ t[Len(t)] \in SpaceChars THEN RStrip(SubSeq(t, 1, Len(t) - 1)) ELSE t

\* str.strip()
Strip(t) == RStrip(LStrip(t))

\* str.startswith(p)
StartsWith(t, p) == Len(t) >= Len(p) /\ SubSeq(t, 1, Len(p)) = p

\* The least index at which sep occurs in t, 0 when it does not: str.find + 1
Find(t, sep) ==
    LET hits == {i \in 1..(Len(t) - Len(sep) + 1) : SubSeq(t, i, i + Len(sep) - 1) = sep}
    IN  IF hits = {} THEN 0 ELSE CHOOSE i \in hits : \A j \in hits : i <= j

\* str.split(sep, maxsplit)
RECURSIVE SplitMax(_, _, _)
SplitMax(t, sep, max) ==
    LET i == Find(t, sep)
    IN  IF max = 0 \/ i = 0
        THEN <<t>>
        ELSE <<SubSeq(t, 1, i - 1)>> \o SplitMax(SubSeq(t, i + Len(sep), Len(t)), sep, max - 1)

\* str.split(sep)
Split(t, sep) == SplitMax(t, sep, Len(t))

\* int(text) succeeds: optional surrounding blanks, an optional sign, then digits
IsInt(t) ==
    LET s == Strip(t)
        d == IF s # <<>> /\ Head(s) \in {"-", "+"} THEN Tail(s) ELSE s
    IN  d # <<>> /\ \A i \in 1..Len(d) : IsDigit(d[i])

DigitVal(c) == (CHOOSE i \in 1..10 : DigitChars[i] = c) - 1

RECURSIVE DigitsVal(_)
DigitsVal(d) == IF d = <<>> THEN 0 ELSE 10 * DigitsVal(SubSeq(d, 1, Len(d) - 1)) + DigitVal(d[Len(d)])

\* int(text), for a text on which it succeeds
ToInt(t) ==
    LET s == Strip(t)
    IN  IF Head(s) = "-" THEN 0 - DigitsVal(Tail(s))
        ELSE IF Head(s) = "+" THEN DigitsVal(Tail(s))
        ELSE DigitsVal(s)

\* str(n) of a natural number, as an f-string renders it
RECURSIVE IntText(_)
IntText(n) == IF n < 10 THEN <<DigitChars[n + 1]>> ELSE IntText(n \div 10) \o <<DigitChars[(n % 10) + 1]>>

\* Python's None where a text is expected
NoneT == <<"None">>

-----------------------------------------------------------------------------
(* The federation: BBS nodes, users, and the node directory every          *)
(* interface holds (interface.nodes).  A node number and its node id are   *)
(* modelled by the same name; Id(a) is the id as the program's text.       *)

Nodes == {"n1", "n2", "n3"}
Users == {"u1", "u2"}
Addrs == Nodes \cup Users

Id(a) == <<a>>
BROADCAST_NUM == <<"^all">>

\* short names are what the owners typed: n2 and n3 carry the same one
NodeDir ==
    [a \in Addrs |->
        CASE a = "u1" -> [shortName |-> <<"A","L">>, longName |-> <<"A","l","i","c","e">>]
          [] a = "u2" -> [shortName |-> <<"B","O">>, longName |-> <<"B","o","b">>]
          [] a = "n1" -> [shortName |-> <<"N","1">>, longName |-> <<"N","o","d","e","1">>]
          [] a = "n2" -> [shortName |-> <<"N","2">>, longName |-> <<"N","o","d","e","2">>]
          [] OTHER    -> [shortName |-> <<"N","2">>, longName |-> <<"N","o","d","e","3">>]]

Range(s) == {s[i] : i \in 1..Len(s)}

\* utils.get_node_id_from_num
get_node_id_from_num(num) == IF num \in DOMAIN NodeDir THEN Id(num) ELSE NoneT

\* utils.get_node_short_name, on the id text
get_node_short_name(id) ==
    IF \E a \in DOMAIN NodeDir : Id(a) = id
    THEN NodeDir[CHOOSE a \in DOMAIN NodeDir : Id(a) = id].shortName
    ELSE NoneT

\* command_handlers.get_node_name, on the id text
get_node_name(id) ==
    IF \E a \in DOMAIN NodeDir : Id(a) = id
    THEN NodeDir[CHOOSE a \in DOMAIN NodeDir : Id(a) = id].longName
    ELSE <<"N","o","d","e"," ">> \o id

AddrOrder == <<"n1", "n2", "n3", "u1", "u2">>

\* a get_node_info that compares the short names as they are written
get_node_info_exact(short_name) ==
    LET hit(a) == NodeDir[a].shortName = short_name
        F[i \in 0..Len(AddrOrder)] ==
            IF i = 0 THEN <<>>
            ELSE IF hit(AddrOrder[i])
                 THEN Append(F[i - 1], [num |-> Id(AddrOrder[i]),
                                        shortName |-> NodeDir[AddrOrder[i]].shortName,
                                        longName |-> NodeDir[AddrOrder[i]].longName])
                 ELSE F[i - 1]
    IN  F[Len(AddrOrder)]
\* utils.get_node_info: the directory entries whose short name, lowered, is short_name
get_node_info(short_name) ==
    LET hit(a) == Lower(NodeDir[a].shortName) = short_name
        F[i \in 0..Len(AddrOrder)] ==
            IF i = 0 THEN <<>>
            ELSE IF hit(AddrOrder[i])
                 THEN Append(F[i - 1], [num |-> Id(AddrOrder[i]),
                                        shortName |-> NodeDir[AddrOrder[i]].shortName,
                                        longName |-> NodeDir[AddrOrder[i]].longName])
                 ELSE F[i - 1]
    IN  F[Len(AddrOrder)]

-----------------------------------------------------------------------------
(* The world a handler runs in, and its effects.                           *)

max_payload_size == 200

KeySyms == <<"k1", "k2", "k3", "k4", "k5", "k6">>

\* str(uuid.uuid4()): the k-th key minted in the federation
Uuid(k) == <<KeySyms[k]>>

EmptyDb == [bulletins |-> <<>>, mail |-> <<>>, channels |-> <<>>,
            bseq |-> 0, mseq |-> 0, cseq |-> 0]

\* the session of an address that has none (user_states.get(...) is None)
NoState == [command |-> "None"]

HasState(st) == st.command # "None"

World(n) == [me |-> n, db |-> db[n], us |-> user_states[n], tr |-> <<>>, uuid |-> uuid,
             exc |-> "", ret |-> NoneT, peers |-> bbs_nodes[n],
             allowed |-> allowed_nodes[n], hd |-> <<>>, down |-> {}]

Raise(w, e) == IF w.exc = "" THEN [w EXCEPT !.exc = e] ELSE w

\* the handler the router hands the message to, and the step it is given
Enter(w, fn, step) == IF w.exc = "" THEN [w EXCEPT !.hd = Append(@, [fn |-> fn, step |-> step])] ELSE w

\* utils.update_user_state
update_user_state(w, user_id, state) ==
    IF w.exc # "" THEN w ELSE [w EXCEPT !.us[user_id] = state]

\* utils.get_user_state
get_user_state(w, user_id) == w.us[user_id]

Chunks(t) ==
    [i \in 1..((Len(t) + max_payload_size - 1) \div max_payload_size) |->
        SubSeq(t, (i - 1) * max_payload_size + 1,
               IF i * max_payload_size < Len(t) THEN i * max_payload_size ELSE Len(t))]

\* interface.sendText to a destination: the radio takes the text ("send"), or the
\* call raises ConnectionError or TimeoutError, which send_message catches and
\* logs ("fail"); w.down holds the destinations whose sends fail in this run
SendEv(w, destination) == IF destination \in w.down THEN "fail" ELSE "send"

\* a send_message that lets the failure of sendText reach its caller
send_message_raise(w, message, destination) ==
    IF w.exc # "" THEN w
    ELSE IF destination \in w.down THEN Raise(w, "ConnectionError")
    ELSE [w EXCEPT !.tr = @ \o [i \in 1..Len(Chunks(message)) |->
                                  [ev |-> SendEv(w, destination), to |-> destination, tag |-> "line",
                                   text |-> Chunks(message)[i], rows |-> <<>>]]]
\* utils.send_message of a line the program built character by character:
\* one sendText per chunk of max_payload_size characters
send_message(w, message, destination) ==
    IF w.exc # "" THEN w
    ELSE [w EXCEPT !.tr = @ \o [i \in 1..Len(Chunks(message)) |->
                                  [ev |-> SendEv(w, destination), to |-> destination, tag |-> "line",
                                   text |-> Chunks(message)[i], rows |-> <<>>]]]

\* utils.send_message of a text for a person: tag is the literal the text begins
\* with, rows the stored rows whose fields the text displays
Reply(w, tag, destination, rows) ==
    IF w.exc # "" THEN w
    ELSE [w EXCEPT !.tr = Append(@, [ev |-> SendEv(w, destination), to |-> destination, tag |-> tag,
                                     text |-> <<>>, rows |-> rows])]

\* conn.commit() after a statement that inserted or deleted rows
Commit(w, stmt, rows) ==
    [w EXCEPT !.tr = Append(@, [ev |-> "commit", to |-> <<>>, tag |-> stmt,
                                text |-> <<>>, rows |-> rows])]

RECURSIVE SendAll(_, _, _)
SendAll(w, message, nodes) ==
    IF nodes = <<>> THEN w
    ELSE SendAll(send_message(w, message, Id(Head(nodes))), message, Tail(nodes))

Bar == <<"|">>
P_BULLETIN == <<"B","U","L","L","E","T","I","N","|">>
P_MAIL == <<"M","A","I","L","|">>
P_DELETE_BULLETIN == <<"D","E","L","E","T","E","_","B","U","L","L","E","T","I","N","|">>
P_DELETE_MAIL == <<"D","E","L","E","T","E","_","M","A","I","L","|">>
P_CHANNEL == <<"C","H","A","N","N","E","L","|">>

\* utils.send_bulletin_to_bbs_nodes
send_bulletin_to_bbs_nodes(w, board, sender_short_name, subject, content, unique_id, nodes) ==
    SendAll(w, P_BULLETIN \o board \o Bar \o sender_short_name \o Bar \o subject
               \o Bar \o content \o Bar \o unique_id, nodes)

\* utils.send_mail_to_bbs_nodes
send_mail_to_bbs_nodes(w, sender_id, sender_short_name, recipient_id, subject, content, unique_id, nodes) ==
    SendAll(w, P_MAIL \o sender_id \o Bar \o sender_short_name \o Bar \o recipient_id
               \o Bar \o subject \o Bar \o content \o Bar \o unique_id, nodes)

\* utils.send_delete_bulletin_to_bbs_nodes
send_delete_bulletin_to_bbs_nodes(w, bulletin_id, nodes) ==
    SendAll(w, P_DELETE_BULLETIN \o bulletin_id, nodes)

\* utils.send_delete_mail_to_bbs_nodes
send_delete_mail_to_bbs_nodes(w, unique_id, nodes) ==
    SendAll(w, P_DELETE_MAIL \o unique_id, nodes)

\* a fan-out that stops after the first peer of the list
send_channel_to_first(w, name, url, nodes) ==
    SendAll(w, P_CHANNEL \o name \o Bar \o url, SubSeq(nodes, 1, 1))
\* utils.send_channel_to_bbs_nodes
send_channel_to_bbs_nodes(w, name, url, nodes) ==
    SendAll(w, P_CHANNEL \o name \o Bar \o url, nodes)

-----------------------------------------------------------------------------
(* The record store: db_operations.py.                                     *)

IsNone(v) == v = NoneT

\* SelectSeq(rows, Test) is the rows of a table that satisfy a WHERE clause, in rowid order

\* db_operations.add_channel
add_channel(w, name, url, nodes) ==
    IF w.exc # "" THEN w
    ELSE IF IsNone(name) \/ IsNone(url) THEN Raise(w, "IntegrityError")
    ELSE
    LET row == [id |-> w.db.cseq + 1, name |-> name, url |-> url]
        w1 == Commit([w EXCEPT !.db.channels = Append(@, row), !.db.cseq = @ + 1],
                     "insert_channel", <<row>>)
    IN  IF nodes # <<>> THEN send_channel_to_bbs_nodes(w1, name, url, nodes) ELSE w1

\* db_operations.get_channels
get_channels(w) == w.db.channels

Urgent == <<"u","r","g","e","n","t">>

\* the text of the urgent notification, by its leading literal
UrgentNotice == "NEW URGENT BULLETIN"

\* an add_bulletin that tells no one of an urgent bulletin
add_bulletin_quiet(w, board, sender_short_name, subject, content, nodes, unique_id) ==
    IF w.exc # "" THEN w
    ELSE
    LET mint == IsNone(unique_id) \/ unique_id = <<>>
        uid == IF mint THEN Uuid(w.uuid + 1) ELSE unique_id
        row == [id |-> w.db.bseq + 1, board |-> board, sender_short_name |-> sender_short_name,
                subject |-> subject, content |-> content, unique_id |-> uid]
        w0 == IF mint THEN [w EXCEPT !.uuid = @ + 1] ELSE w
    IN  IF IsNone(board) \/ IsNone(sender_short_name) \/ IsNone(subject) \/ IsNone(content)
        THEN Raise(w0, "IntegrityError")
        ELSE
        LET w1 == Commit([w0 EXCEPT !.db.bulletins = Append(@, row), !.db.bseq = @ + 1],
                         "insert_bulletin", <<row>>)
            w2 == IF nodes # <<>>
                  THEN send_bulletin_to_bbs_nodes(w1, board, sender_short_name, subject,
                                                  content, uid, nodes)
                  ELSE w1
        IN  [w2 EXCEPT !.ret = uid]
\* db_operations.add_bulletin; the key it returns is left in ret
add_bulletin(w, board, sender_short_name, subject, content, nodes, unique_id) ==
    IF w.exc # "" THEN w
    ELSE
    LET mint == IsNone(unique_id) \/ unique_id = <<>>
        uid == IF mint THEN Uuid(w.uuid + 1) ELSE unique_id
        row == [id |-> w.db.bseq + 1, board |-> board, sender_short_name |-> sender_short_name,
                subject |-> subject, content |-> content, unique_id |-> uid]
        w0 == IF mint THEN [w EXCEPT !.uuid = @ + 1] ELSE w
    IN  IF IsNone(board) \/ IsNone(sender_short_name) \/ IsNone(subject) \/ IsNone(content)
        THEN Raise(w0, "IntegrityError")
        ELSE
        LET w1 == Commit([w0 EXCEPT !.db.bulletins = Append(@, row), !.db.bseq = @ + 1],
                         "insert_bulletin", <<row>>)
            w2 == IF nodes # <<>>
                  THEN send_bulletin_to_bbs_nodes(w1, board, sender_short_name, subject,
                                                  content, uid, nodes)
                  ELSE w1
            w3 == IF Lower(board) = Urgent
                  THEN Reply(w2, UrgentNotice, BROADCAST_NUM, <<row>>)
                  ELSE w2
        IN  [w3 EXCEPT !.ret = uid]

\* a get_bulletins that compares the board names as they are written
get_bulletins_exact(w, board) ==
    LET Test(r) == r.board = board
    IN  SelectSeq(w.db.bulletins, Test)
\* db_operations.get_bulletins: WHERE board = ? COLLATE NOCASE
get_bulletins(w, board) ==
    LET Test(r) == Lower(r.board) = Lower(board)
    IN  SelectSeq(w.db.bulletins, Test)

\* the id column compared with a bound text: the text is converted when it is a number
IdMatches(id, t) == IsInt(t) /\ ToInt(t) = id

\* db_operations.get_bulletin_content: the first row with that id, <<>> for None
get_bulletin_content(w, bulletin_id) ==
    LET Test(r) == r.id = bulletin_id
    IN  SelectSeq(w.db.bulletins, Test)

\* db_operations.delete_bulletin; bulletin_id is the text the statement is given
delete_bulletin(w, bulletin_id, nodes) ==
    IF w.exc # "" THEN w
    ELSE
    LET Gone(r) == IdMatches(r.id, bulletin_id)
        Kept(r) == ~Gone(r)
        w1 == Commit([w EXCEPT !.db.bulletins = SelectSeq(@, Kept)],
                     "delete_bulletin", SelectSeq(w.db.bulletins, Gone))
    IN  send_delete_bulletin_to_bbs_nodes(w1, bulletin_id, nodes)

\* an add_mail that mints a key whether or not the caller supplies one
add_mail_mint(w, sender_id, sender_short_name, recipient_id, subject, content, nodes, unique_id) ==
    IF w.exc # "" THEN w
    ELSE
    LET uid == Uuid(w.uuid + 1)
        row == [id |-> w.db.mseq + 1, sender |-> sender_id,
                sender_short_name |-> sender_short_name, recipient |-> recipient_id,
                subject |-> subject, content |-> content, unique_id |-> uid]
        w0 == [w EXCEPT !.uuid = @ + 1]
        w1 == Commit([w0 EXCEPT !.db.mail = Append(@, row), !.db.mseq = @ + 1],
                     "insert_mail", <<row>>)
        w2 == IF nodes # <<>>
              THEN send_mail_to_bbs_nodes(w1, sender_id, sender_short_name, recipient_id,
                                          subject, content, uid, nodes)
              ELSE w1
    IN  [w2 EXCEPT !.ret = uid]
\* db_operations.add_mail; the key it returns is left in ret
add_mail(w, sender_id, sender_short_name, recipient_id, subject, content, nodes, unique_id) ==
    IF w.exc # "" THEN w
    ELSE
    LET mint == IsNone(unique_id) \/ unique_id = <<>>
        uid == IF mint THEN Uuid(w.uuid + 1) ELSE unique_id
        row == [id |-> w.db.mseq + 1, sender |-> sender_id,
                sender_short_name |-> sender_short_name, recipient |-> recipient_id,
                subject |-> subject, content |-> content, unique_id |-> uid]
        w0 == IF mint THEN [w EXCEPT !.uuid = @ + 1] ELSE w
    IN  IF IsNone(sender_id) \/ IsNone(sender_short_name) \/ IsNone(recipient_id)
           \/ IsNone(subject) \/ IsNone(content)
        THEN Raise(w0, "IntegrityError")
        ELSE
        LET w1 == Commit([w0 EXCEPT !.db.mail = Append(@, row), !.db.mseq = @ + 1],
                         "insert_mail", <<row>>)
            w2 == IF nodes # <<>>
                  THEN send_mail_to_bbs_nodes(w1, sender_id, sender_short_name, recipient_id,
                                              subject, content, uid, nodes)
                  ELSE w1
        IN  [w2 EXCEPT !.ret = uid]

\* a get_mail that selects the mail of every recipient
get_mail_all(w, recipient_id) == w.db.mail
\* db_operations.get_mail
get_mail(w, recipient_id) ==
    LET Test(r) == r.recipient = recipient_id
    IN  SelectSeq(w.db.mail, Test)

\* a lookup by id alone
get_mail_content_any(w, mail_id, recipient_id) ==
    LET Test(r) == r.id = mail_id
    IN  SelectSeq(w.db.mail, Test)
\* db_operations.get_mail_content: the rows with that id and recipient, <<>> for None
get_mail_content(w, mail_id, recipient_id) ==
    LET Test(r) == r.id = mail_id /\ r.recipient = recipient_id
    IN  SelectSeq(w.db.mail, Test)

\* db_operations.delete_mail
delete_mail(w, unique_id, recipient_id, nodes) ==
    IF w.exc # "" THEN w
    ELSE
    LET Keyed(r) == r.unique_id = unique_id
        result == SelectSeq(w.db.mail, Keyed)
    IN  IF result = <<>> THEN w
        ELSE
        LET recipient == result[1].recipient
            Gone(r) == r.unique_id = unique_id /\ r.recipient = recipient
            Kept(r) == ~Gone(r)
            w1 == Commit([w EXCEPT !.db.mail = SelectSeq(@, Kept)],
                         "delete_mail", SelectSeq(w.db.mail, Gone))
        IN  send_delete_mail_to_bbs_nodes(w1, unique_id, nodes)

\* db_operations.get_sender_id_by_mail_id
get_sender_id_by_mail_id(w, mail_id) ==
    LET Test(r) == r.id = mail_id
        result == SelectSeq(w.db.mail, Test)
    IN  IF result # <<>> THEN result[1].sender ELSE NoneT

\* message_processing.get_recipient_id_by_mail
get_recipient_id_by_mail(w, unique_id) ==
    LET Test(r) == r.unique_id = unique_id
        result == SelectSeq(w.db.mail, Test)
    IN  IF result # <<>> THEN result[1].recipient ELSE NoneT

-----------------------------------------------------------------------------
(* Conversation handlers: command_handlers.py and js8call_integration.py.  *)
(* sender_id is the address the packet came from; replies go to Id of it.  *)

X == <<"x">>

\* a reading of the text that never cuts it
UnrepeatNever(m) == m
\* the "xx" convention of the step handlers: a two-character text ending in x
\* is its first character
Unrepeat(m) == IF Len(m) = 2 /\ m[2] = "x" THEN <<m[1]>> ELSE m

\* command_handlers.handle_help_command; menu_name "" is None
handle_help_command(w, sender_id, menu_name) ==
    IF menu_name # ""
    THEN LET w1 == update_user_state(w, sender_id,
                       [command |-> "MENU", menu |-> menu_name, step |-> 1])
         IN  Reply(w1, CASE menu_name = "bbs" -> "Menu"
                         [] menu_name = "utilities" -> "Utilities Menu"
                         [] OTHER -> "Nothing to reply",
                   Id(sender_id), <<>>)
    ELSE LET w1 == update_user_state(w, sender_id, [command |-> "MAIN_MENU", step |-> 1])
         IN  Reply(w1, "{service_name}", Id(sender_id),
                   get_mail(w1, get_node_id_from_num(sender_id)))

\* a mail menu that leaves the session at the step after the menu
handle_mail_command_step2(w, sender_id) ==
    update_user_state(Reply(w, "Mail Menu", Id(sender_id), <<>>),
                      sender_id, [command |-> "MAIL", step |-> 2])
\* command_handlers.handle_mail_command
handle_mail_command(w, sender_id) ==
    update_user_state(Reply(w, "Mail Menu", Id(sender_id), <<>>),
                      sender_id, [command |-> "MAIL", step |-> 1])

\* command_handlers.handle_bulletin_command
handle_bulletin_command(w, sender_id) ==
    update_user_state(Reply(w, "Bulletin Menu", Id(sender_id), <<>>),
                      sender_id, [command |-> "BULLETIN_MENU", step |-> 1])

\* command_handlers.handle_stats_command
handle_stats_command(w, sender_id) ==
    update_user_state(Reply(w, "Stats Menu", Id(sender_id), <<>>),
                      sender_id, [command |-> "STATS", step |-> 1])

\* command_handlers.handle_fortune_command, fortunes.txt holding a fortune
handle_fortune_command(w, sender_id) ==
    Reply(w, "{fortune}", Id(sender_id), <<>>)

\* command_handlers.handle_wall_of_shame_command, no node reporting a battery level
handle_wall_of_shame_command(w, sender_id) ==
    Reply(w, "No devices with battery levels below 20% found.", Id(sender_id), <<>>)

\* command_handlers.handle_quick_help_command
handle_quick_help_command(w, sender_id) ==
    Reply(w, "QUICK COMMANDS", Id(sender_id), <<>>)

\* command_handlers.handle_channel_directory_command
handle_channel_directory_command(w, sender_id) ==
    update_user_state(Reply(w, "CHANNEL DIRECTORY", Id(sender_id), <<>>),
                      sender_id, [command |-> "CHANNEL_DIRECTORY", step |-> 1])

\* command_handlers.handle_stats_steps
handle_stats_steps(w, sender_id, message0, step) ==
    LET message == Unrepeat(Strip(Lower(message0)))
    IN  IF step # 1 THEN w
        ELSE IF message = X THEN handle_help_command(w, sender_id, "")
        ELSE IF message = <<"n">>
             THEN handle_stats_command(Reply(w, "Total nodes seen:", Id(sender_id), <<>>), sender_id)
        ELSE IF message = <<"h">>
             THEN handle_stats_command(Reply(w, "Hardware Models:", Id(sender_id), <<>>), sender_id)
        ELSE IF message = <<"r">>
             THEN handle_stats_command(Reply(w, "Roles:", Id(sender_id), <<>>), sender_id)
        ELSE w

\* the distinct group names of js8call.db: the gateway has stored none
JS8Groups == <<>>

\* js8call_integration.handle_js8call_command
handle_js8call_command(w, sender_id) ==
    update_user_state(Reply(w, "JS8Call Menu:", Id(sender_id), <<>>),
                      sender_id, [command |-> "JS8CALL_MENU", step |-> 1])

\* js8call_integration.handle_group_messages_command
handle_group_messages_command(w, sender_id) ==
    IF JS8Groups # <<>>
    THEN update_user_state(Reply(w, "Group Messages Menu:", Id(sender_id), <<>>), sender_id,
                           [command |-> "GROUP_MESSAGES", step |-> 1, groups |-> JS8Groups])
    ELSE handle_js8call_command(Reply(w, "No group messages available.", Id(sender_id), <<>>),
                                sender_id)

\* js8call_integration.handle_station_messages_command
handle_station_messages_command(w, sender_id) ==
    handle_js8call_command(Reply(w, "No station messages available.", Id(sender_id), <<>>),
                           sender_id)

\* js8call_integration.handle_urgent_messages_command
handle_urgent_messages_command(w, sender_id) ==
    handle_js8call_command(Reply(w, "No urgent messages available.", Id(sender_id), <<>>),
                           sender_id)

\* js8call_integration.handle_js8call_steps
handle_js8call_steps(w, sender_id, message0, step) ==
    LET message == Unrepeat(Strip(Lower(message0)))
    IN  IF step # 1 THEN w
        ELSE IF message = X THEN handle_help_command(w, sender_id, "bbs")
        ELSE IF message = <<"g">> THEN handle_group_messages_command(w, sender_id)
        ELSE IF message = <<"s">> THEN handle_station_messages_command(w, sender_id)
        ELSE IF message = <<"u">> THEN handle_urgent_messages_command(w, sender_id)
        ELSE handle_js8call_command(
                 Reply(w, "Invalid option. Please choose again.", Id(sender_id), <<>>), sender_id)

\* js8call_integration.handle_group_message_selection
handle_group_message_selection(w, sender_id, message, state) ==
    LET groups == state.groups
        ok == IsInt(message) /\ ToInt(message) < Len(groups) /\ ToInt(message) >= 0 - Len(groups)
        w1 == IF ok
              THEN Reply(w, "No messages for group", Id(sender_id), <<>>)
              ELSE handle_group_messages_command(
                       Reply(w, "Invalid group selection. Please choose again.",
                             Id(sender_id), <<>>), sender_id)
    IN  handle_js8call_command(w1, sender_id)

General == <<"G","e","n","e","r","a","l">>
Info == <<"I","n","f","o">>
News == <<"N","e","w","s">>
UrgentBoard == <<"U","r","g","e","n","t">>

\* boards = {0: "General", 1: "Info", 2: "News", 3: "Urgent"}
boards == <<General, Info, News, UrgentBoard>>

END == <<"e","n","d">>
NL == <<"\n">>

\* a board check that lets every address post
PermittedAll(w, board_name, sender_id) == TRUE
\* handle_bb_steps step 2, choice p: whether the sender may post to the board; the
\* Urgent board is closed to an address outside a non-empty allow-list
Permitted(w, board_name, sender_id) ==
    ~(/\ Lower(board_name) = Urgent
      /\ w.allowed # <<>>
      /\ get_node_id_from_num(sender_id) \notin {Id(a) : a \in Range(w.allowed)})

\* command_handlers.handle_bb_steps; bbs_nodes <<>> is also None
RECURSIVE handle_bb_steps(_, _, _, _, _, _)
handle_bb_steps(w, sender_id, message, step, state, nodes) ==
    IF w.exc # "" THEN w
    ELSE IF step = 1 THEN
        IF Lower(message) = <<"e">> THEN handle_help_command(w, sender_id, "bbs")
        ELSE IF ~IsInt(message) THEN Raise(w, "ValueError")
        ELSE IF ToInt(message) \notin 0..3 THEN Raise(w, "KeyError")
        ELSE
        LET board_name == boards[ToInt(message) + 1]
            w1 == Reply(w, "{board_name} has {n} messages.", Id(sender_id), <<>>)
        IN  update_user_state(w1, sender_id,
                [command |-> "BULLETIN_ACTION", step |-> 2, board |-> board_name])
    ELSE IF step = 2 THEN
        LET board_name == state.board IN
        IF Lower(message) = <<"r">> THEN
            LET bulletins == get_bulletins(w, board_name) IN
            IF bulletins # <<>>
            THEN LET w1 == Reply(w, "Select a bulletin number to view from", Id(sender_id), <<>>)
                     w2 == [w1 EXCEPT !.tr = @ \o [i \in 1..Len(bulletins) |->
                              [ev |-> SendEv(w, Id(sender_id)), to |-> Id(sender_id), tag |-> "[{id}] {subject}",
                               text |-> <<>>, rows |-> <<bulletins[i]>>]]]
                 IN  update_user_state(w2, sender_id,
                         [command |-> "BULLETIN_READ", step |-> 3, board |-> board_name])
            ELSE handle_bb_steps(Reply(w, "No bulletins in", Id(sender_id), <<>>),
                                 sender_id, <<"e">>, 1, state, nodes)
        ELSE IF Lower(message) = <<"p">> THEN
            IF ~Permitted(w, board_name, sender_id)
            THEN handle_bb_steps(
                     Reply(w, "You don't have permission to post to this board.",
                           Id(sender_id), <<>>),
                     sender_id, <<"e">>, 1, state, nodes)
            ELSE update_user_state(
                     Reply(w, "What is the subject of your bulletin? Keep it short.",
                           Id(sender_id), <<>>),
                     sender_id, [command |-> "BULLETIN_POST", step |-> 4, board |-> board_name])
        ELSE w
    ELSE IF step = 3 THEN
        IF ~IsInt(message) THEN Raise(w, "ValueError")
        ELSE
        LET found == get_bulletin_content(w, ToInt(message)) IN
        IF found = <<>> THEN Raise(w, "TypeError")
        ELSE handle_bb_steps(Reply(w, "From: {sender_short_name}", Id(sender_id), <<found[1]>>),
                             sender_id, <<"e">>, 1, state, nodes)
    ELSE IF step = 4 THEN
        update_user_state(
            Reply(w, "Send the contents of your bulletin. Send a message with END when finished.",
                  Id(sender_id), <<>>),
            sender_id,
            [command |-> "BULLETIN_POST_CONTENT", step |-> 5, board |-> state.board,
             subject |-> message, content |-> <<>>])
    ELSE IF step = 5 THEN
        IF Lower(message) = END THEN
            IF sender_id \notin DOMAIN NodeDir
            THEN update_user_state(
                     Reply(w, "Error: Unable to retrieve your node information.",
                           Id(sender_id), <<>>),
                     sender_id, NoState)
            ELSE
            LET w1 == add_bulletin(w, state.board, NodeDir[sender_id].shortName,
                                   state.subject, state.content, nodes, NoneT)
                w2 == Reply(w1, "Your bulletin '{subject}' has been posted to", Id(sender_id), <<>>)
            IN  handle_bb_steps(w2, sender_id, <<"e">>, 1, state, nodes)
        ELSE update_user_state(w, sender_id,
                 [state EXCEPT !.content = @ \o message \o NL])
    ELSE w

Re == <<"R","e",":"," ">>

NewMailNotice == "You have a new mail message from"

\* command_handlers.handle_mail_steps
handle_mail_steps(w, sender_id, message0, step, state, nodes) ==
    LET message == Unrepeat(Strip(message0)) IN
    IF w.exc # "" THEN w
    ELSE IF step = 1 THEN
        LET choice == Lower(message) IN
        IF choice = <<"r">> THEN
            LET mail == get_mail(w, get_node_id_from_num(sender_id)) IN
            IF mail # <<>>
            THEN LET w1 == Reply(w, "You have {n} mail messages. Select a message number to read:",
                                 Id(sender_id), <<>>)
                     w2 == [w1 EXCEPT !.tr = @ \o [i \in 1..Len(mail) |->
                              [ev |-> SendEv(w, Id(sender_id)), to |-> Id(sender_id), tag |-> "-{id}-",
                               text |-> <<>>, rows |-> <<mail[i]>>]]]
                 IN  update_user_state(w2, sender_id, [command |-> "MAIL", step |-> 2])
            ELSE update_user_state(
                     Reply(w, "There are no messages in your mailbox.", Id(sender_id), <<>>),
                     sender_id, NoState)
        ELSE IF choice = <<"s">> THEN
            update_user_state(
                Reply(w, "What is the Short Name of the node you want to leave a message for?",
                      Id(sender_id), <<>>),
                sender_id, [command |-> "MAIL", step |-> 3])
        ELSE IF choice = X THEN handle_help_command(w, sender_id, "")
        ELSE w
    ELSE IF step = 2 THEN
        IF ~IsInt(message) THEN Raise(w, "ValueError")
        ELSE
        LET mail_id == ToInt(message)
            found == get_mail_content(w, mail_id, get_node_id_from_num(sender_id))
        IN  IF found = <<>>
            THEN update_user_state(Reply(w, "Mail not found", Id(sender_id), <<>>),
                                   sender_id, NoState)
            ELSE
            LET w1 == Reply(w, "Date: {date}\nFrom: {sender}\nSubject: {subject}\n{content}",
                            Id(sender_id), <<found[1]>>)
                w2 == Reply(w1, "What would you like to do with this message?",
                            Id(sender_id), <<>>)
            IN  update_user_state(w2, sender_id,
                    [command |-> "MAIL", step |-> 4, mail_id |-> mail_id,
                     unique_id |-> found[1].unique_id, sender |-> found[1].sender_short_name,
                     subject |-> found[1].subject, content |-> found[1].content])
    ELSE IF step = 3 THEN
        LET nodes_found == get_node_info(Lower(message)) IN
        IF nodes_found = <<>>
        THEN handle_mail_command(
                 Reply(w, "I'm unable to find that node in my database.", Id(sender_id), <<>>),
                 sender_id)
        ELSE IF Len(nodes_found) = 1
        THEN update_user_state(
                 Reply(w, "What is the subject of your message to", Id(sender_id), <<>>),
                 sender_id, [command |-> "MAIL", step |-> 5, recipient_id |-> nodes_found[1].num])
        ELSE LET w1 == Reply(w, "There are multiple nodes with that short name.",
                             Id(sender_id), <<>>)
                 w2 == [w1 EXCEPT !.tr = @ \o [i \in 1..Len(nodes_found) |->
                          [ev |-> SendEv(w, Id(sender_id)), to |-> Id(sender_id), tag |-> "[{i}] {longName}",
                           text |-> <<>>, rows |-> <<>>]]]
             IN  update_user_state(w2, sender_id,
                     [command |-> "MAIL", step |-> 6, nodes |-> nodes_found])
    ELSE IF step = 4 THEN
        IF Lower(message) = <<"d">> THEN
            LET w1 == delete_mail(w, state.unique_id, get_node_id_from_num(sender_id), nodes)
                w2 == Reply(w1, "The message has been deleted", Id(sender_id), <<>>)
            IN  update_user_state(w2, sender_id, NoState)
        ELSE IF Lower(message) = <<"r">> THEN
            update_user_state(
                Reply(w, "Send your reply to {sender} now, followed by a message with END",
                      Id(sender_id), <<>>),
                sender_id,
                [command |-> "MAIL", step |-> 7, reply_to_mail_id |-> state.mail_id,
                 subject |-> Re \o state.subject, content |-> <<>>])
        ELSE update_user_state(
                 Reply(w, "The message has been kept in your inbox.", Id(sender_id), <<>>),
                 sender_id, NoState)
    ELSE IF step = 5 THEN
        update_user_state(
            Reply(w, "Send your message. You can send it in multiple messages",
                  Id(sender_id), <<>>),
            sender_id,
            [command |-> "MAIL", step |-> 7, recipient_id |-> state.recipient_id,
             subject |-> message, content |-> <<>>])
    ELSE IF step = 6 THEN
        IF ~IsInt(message) THEN Raise(w, "ValueError")
        ELSE IF ToInt(message) >= Len(state.nodes) \/ ToInt(message) < 0 - Len(state.nodes)
        THEN Raise(w, "IndexError")
        ELSE
        LET i == IF ToInt(message) >= 0 THEN ToInt(message) + 1
                 ELSE Len(state.nodes) + ToInt(message) + 1
        IN  update_user_state(
                Reply(w, "What is the subject of your message to", Id(sender_id), <<>>),
                sender_id, [command |-> "MAIL", step |-> 5, recipient_id |-> state.nodes[i].num])
    ELSE IF step = 7 THEN
        IF Lower(message) = END THEN
            LET recipient_id == IF "reply_to_mail_id" \in DOMAIN state
                                THEN get_sender_id_by_mail_id(w, state.reply_to_mail_id)
                                ELSE IF "recipient_id" \in DOMAIN state THEN state.recipient_id
                                ELSE NoneT
                sender_short_name == get_node_short_name(get_node_id_from_num(sender_id))
                w1 == add_mail(w, get_node_id_from_num(sender_id), sender_short_name,
                               recipient_id, state.subject, state.content, nodes, NoneT)
                w2 == Reply(w1, "Mail has been posted to the mailbox of", Id(sender_id), <<>>)
                w3 == Reply(w2, NewMailNotice, recipient_id, <<>>)
                w4 == update_user_state(w3, sender_id, NoState)
            IN  update_user_state(w4, sender_id, [command |-> "MAIL", step |-> 8])
        ELSE update_user_state(w, sender_id,
                 [state EXCEPT !.content = @ \o message \o NL])
    ELSE IF step = 8 THEN
        IF Lower(message) = <<"y">> THEN handle_mail_command(w, sender_id)
        ELSE update_user_state(
                 Reply(w, "Okay, feel free to send another command.", Id(sender_id), <<>>),
                 sender_id, NoState)
    ELSE w

\* command_handlers.handle_channel_directory_steps
handle_channel_directory_steps(w, sender_id, message0, step, state) ==
    LET message == Unrepeat(Strip(message0)) IN
    IF w.exc # "" THEN w
    ELSE IF step = 1 THEN
        IF Lower(message) = X THEN handle_help_command(w, sender_id, "")
        ELSE IF Lower(message) = <<"v">> THEN
            IF get_channels(w) # <<>>
            THEN update_user_state(
                     Reply(w, "Select a channel number to view:", Id(sender_id), <<>>),
                     sender_id, [command |-> "CHANNEL_DIRECTORY", step |-> 2])
            ELSE handle_channel_directory_command(
                     Reply(w, "No channels available in the directory.", Id(sender_id), <<>>),
                     sender_id)
        \* line 763 compares the bound method choice.lower, not its result, with "p"
        ELSE IF FALSE THEN
            update_user_state(
                Reply(w, "Name your channel for the directory:", Id(sender_id), <<>>),
                sender_id, [command |-> "CHANNEL_DIRECTORY", step |-> 3])
        ELSE w
    ELSE IF step = 2 THEN
        IF ~IsInt(message) THEN Raise(w, "ValueError")
        ELSE
        LET channel_index == ToInt(message)
            channels == get_channels(w)
            w1 == IF 0 <= channel_index /\ channel_index < Len(channels)
                  THEN Reply(w, "Channel Name:", Id(sender_id), <<channels[channel_index + 1]>>)
                  ELSE w
        IN  handle_channel_directory_command(w1, sender_id)
    ELSE IF step = 3 THEN
        update_user_state(
            Reply(w, "Send a message with your channel URL or PSK:", Id(sender_id), <<>>),
            sender_id, [command |-> "CHANNEL_DIRECTORY", step |-> 4, channel_name |-> message])
    ELSE IF step = 4 THEN
        LET w1 == add_channel(w, state.channel_name, message, <<>>)
            w2 == Reply(w1, "Your channel '{channel_name}' has been added to the directory.",
                        Id(sender_id), <<>>)
        IN  handle_channel_directory_command(w2, sender_id)
    ELSE w

Commas == <<",", ",">>

\* command_handlers.handle_send_mail_command
handle_send_mail_command(w, sender_id, message, nodes) ==
    LET parts == SplitMax(message, Commas, 3) IN
    IF Len(parts) # 4
    THEN Reply(w, "Send Mail Quick Command format:", Id(sender_id), <<>>)
    ELSE
    LET short_name == parts[2]
        nodes_found == get_node_info(Lower(short_name))
    IN  IF nodes_found = <<>>
        THEN Reply(w, "Node with short name '{short_name}' not found.", Id(sender_id), <<>>)
        ELSE IF Len(nodes_found) > 1
        THEN Reply(w, "Multiple nodes with short name '{short_name}' found.", Id(sender_id), <<>>)
        ELSE
        LET recipient_id == nodes_found[1].num
            sender_short_name == get_node_short_name(get_node_id_from_num(sender_id))
            w1 == add_mail(w, get_node_id_from_num(sender_id), sender_short_name, recipient_id,
                           parts[3], parts[4], nodes, NoneT)
            w2 == Reply(w1, "Mail has been sent to", Id(sender_id), <<>>)
        IN  Reply(w2, NewMailNotice, recipient_id, <<>>)

\* command_handlers.handle_check_mail_command
handle_check_mail_command(w, sender_id) ==
    LET mail == get_mail(w, get_node_id_from_num(sender_id)) IN
    IF mail = <<>>
    THEN Reply(w, "You have no new messages.", Id(sender_id), <<>>)
    ELSE update_user_state(
             Reply(w, "You have the following messages:", Id(sender_id), <<>>),
             sender_id, [command |-> "CHECK_MAIL", step |-> 1, mail |-> mail])

\* state.get(key, []) of a session
GetList(state, key) == IF key \in DOMAIN state THEN state[key] ELSE <<>>

\* command_handlers.handle_read_mail_command
handle_read_mail_command(w, sender_id, message, state) ==
    LET mail == GetList(state, "mail") IN
    IF ~IsInt(message)
    THEN Reply(w, "Invalid input. Please enter a valid message number.", Id(sender_id), <<>>)
    ELSE
    LET message_number == ToInt(message) - 1 IN
    IF message_number < 0 \/ message_number >= Len(mail)
    THEN Reply(w, "Invalid message number. Please try again.", Id(sender_id), <<>>)
    ELSE
    LET mail_id == mail[message_number + 1].id
        found == get_mail_content(w, mail_id, get_node_id_from_num(sender_id))
    IN  IF found = <<>>
        THEN Reply(w, "Error processing read mail command.", Id(sender_id), <<>>)
        ELSE
        LET w1 == Reply(w, "Date: {date}\nFrom: {sender}\nSubject: {subject}\n\n{content}",
                        Id(sender_id), <<found[1]>>)
            w2 == Reply(w1, "What would you like to do with this message?", Id(sender_id), <<>>)
        IN  update_user_state(w2, sender_id,
                [command |-> "CHECK_MAIL", step |-> 2, mail_id |-> mail_id,
                 unique_id |-> found[1].unique_id, sender |-> found[1].sender_short_name,
                 subject |-> found[1].subject, content |-> found[1].content])

\* command_handlers.handle_delete_mail_confirmation
handle_delete_mail_confirmation(w, sender_id, message, state, nodes) ==
    LET choice == Unrepeat(Strip(Lower(message))) IN
    IF choice = <<"d">> THEN
        LET w1 == delete_mail(w, state.unique_id, get_node_id_from_num(sender_id), nodes)
            w2 == Reply(w1, "The message has been deleted", Id(sender_id), <<>>)
        IN  update_user_state(w2, sender_id, NoState)
    ELSE IF choice = <<"r">> THEN
        update_user_state(
            Reply(w, "Send your reply to {sender} now, followed by a message with END",
                  Id(sender_id), <<>>),
            sender_id,
            [command |-> "MAIL", step |-> 7, reply_to_mail_id |-> state.mail_id,
             subject |-> Re \o state.subject, content |-> <<>>])
    ELSE update_user_state(
             Reply(w, "The message has been kept in your inbox.", Id(sender_id), <<>>),
             sender_id, NoState)

\* a PB command that ends the conversation of the sender once it has posted
handle_post_bulletin_command_reset(w, sender_id, message, nodes) ==
    LET parts == SplitMax(message, Commas, 3) IN
    IF Len(parts) # 4
    THEN Reply(w, "Post Bulletin Quick Command format:", Id(sender_id), <<>>)
    ELSE
    LET board_name == parts[2]
        sender_short_name == get_node_short_name(get_node_id_from_num(sender_id))
        w1 == add_bulletin(w, board_name, sender_short_name, parts[3], parts[4], nodes, NoneT)
        w2 == Reply(w1, "Your bulletin '{subject}' has been posted to", Id(sender_id), <<>>)
        w3 == update_user_state(w2, sender_id, NoState)
    IN  IF Lower(board_name) = Urgent
        THEN Reply(w3, UrgentNotice, BROADCAST_NUM, <<>>)
        ELSE w3
\* command_handlers.handle_post_bulletin_command
handle_post_bulletin_command(w, sender_id, message, nodes) ==
    LET parts == SplitMax(message, Commas, 3) IN
    IF Len(parts) # 4
    THEN Reply(w, "Post Bulletin Quick Command format:", Id(sender_id), <<>>)
    ELSE
    LET board_name == parts[2]
        sender_short_name == get_node_short_name(get_node_id_from_num(sender_id))
        w1 == add_bulletin(w, board_name, sender_short_name, parts[3], parts[4], nodes, NoneT)
        w2 == Reply(w1, "Your bulletin '{subject}' has been posted to", Id(sender_id), <<>>)
    IN  IF Lower(board_name) = Urgent
        THEN Reply(w2, UrgentNotice, BROADCAST_NUM, <<>>)
        ELSE w2

\* a CB command that clears the session when the board is empty
handle_check_bulletin_command_reset(w, sender_id, message) ==
    LET parts == SplitMax(message, Commas, 1) IN
    IF Len(parts) # 2 \/ Strip(parts[2]) = <<>>
    THEN Reply(w, "Check Bulletins Quick Command format:", Id(sender_id), <<>>)
    ELSE
    LET board_name == Capitalize(Strip(parts[2])) IN
    IF board_name \notin Range(boards) THEN Raise(w, "StopIteration")
    ELSE
    LET bulletins == get_bulletins(w, board_name) IN
    IF bulletins = <<>>
    THEN update_user_state(
             Reply(w, "No bulletins available on {board_name} board.", Id(sender_id), <<>>),
             sender_id, NoState)
    ELSE update_user_state(
             Reply(w, "Bulletins on {board_name} board:", Id(sender_id), <<>>),
             sender_id,
             [command |-> "CHECK_BULLETIN", step |-> 1, board_name |-> board_name,
              bulletins |-> bulletins])
\* command_handlers.handle_check_bulletin_command
handle_check_bulletin_command(w, sender_id, message) ==
    LET parts == SplitMax(message, Commas, 1) IN
    IF Len(parts) # 2 \/ Strip(parts[2]) = <<>>
    THEN Reply(w, "Check Bulletins Quick Command format:", Id(sender_id), <<>>)
    ELSE
    LET board_name == Capitalize(Strip(parts[2])) IN
    IF board_name \notin Range(boards) THEN Raise(w, "StopIteration")
    ELSE
    LET bulletins == get_bulletins(w, board_name) IN
    IF bulletins = <<>>
    THEN Reply(w, "No bulletins available on {board_name} board.", Id(sender_id), <<>>)
    ELSE update_user_state(
             Reply(w, "Bulletins on {board_name} board:", Id(sender_id), <<>>),
             sender_id,
             [command |-> "CHECK_BULLETIN", step |-> 1, board_name |-> board_name,
              bulletins |-> bulletins])

\* command_handlers.handle_read_bulletin_command
handle_read_bulletin_command(w, sender_id, message, state) ==
    LET bulletins == GetList(state, "bulletins") IN
    IF ~IsInt(message)
    THEN Reply(w, "Invalid input. Please enter a valid bulletin number.", Id(sender_id), <<>>)
    ELSE
    LET message_number == ToInt(message) - 1 IN
    IF message_number < 0 \/ message_number >= Len(bulletins)
    THEN Reply(w, "Invalid bulletin number. Please try again.", Id(sender_id), <<>>)
    ELSE
    LET found == get_bulletin_content(w, bulletins[message_number + 1].id) IN
    IF found = <<>>
    THEN Reply(w, "Error processing read bulletin command.", Id(sender_id), <<>>)
    ELSE update_user_state(
             Reply(w, "Date: {date}\nFrom: {sender}\nSubject: {subject}\n\n{content}",
                   Id(sender_id), <<found[1]>>),
             sender_id, NoState)

\* command_handlers.handle_post_channel_command
handle_post_channel_command(w, sender_id, message) ==
    LET parts == SplitMax(message, Bar, 3) IN
    IF Len(parts) # 3
    THEN Reply(w, "Post Channel Quick Command format:", Id(sender_id), <<>>)
    ELSE Reply(add_channel(w, parts[2], parts[3], w.peers),
               "Channel '{channel_name}' has been added to the directory.", Id(sender_id), <<>>)

\* command_handlers.handle_read_channel_command
handle_read_channel_command(w, sender_id, message, state) ==
    LET channels == GetList(state, "channels") IN
    IF ~IsInt(message)
    THEN Reply(w, "Invalid input. Please enter a valid channel number.", Id(sender_id), <<>>)
    ELSE
    LET message_number == ToInt(message) - 1 IN
    IF message_number < 0 \/ message_number >= Len(channels)
    THEN Reply(w, "Invalid channel number. Please try again.", Id(sender_id), <<>>)
    ELSE update_user_state(
             Reply(w, "Channel Name:", Id(sender_id), <<channels[message_number + 1]>>),
             sender_id, NoState)

\* command_handlers.handle_list_channels_command
handle_list_channels_command(w, sender_id) ==
    LET channels == get_channels(w) IN
    IF channels = <<>>
    THEN Reply(w, "No channels available in the directory.", Id(sender_id), <<>>)
    ELSE update_user_state(
             Reply(w, "Available Channels:", Id(sender_id), <<>>),
             sender_id, [command |-> "LIST_CHANNELS", step |-> 1, channels |-> channels])

-----------------------------------------------------------------------------
(* The command router and the receive handler: message_processing.py.      *)

\* a router that hands the node's peer list to the store when it applies a
\* replicated mutation
SyncPeersFwd(w) == w.peers
\* the peer list process_message hands to the store when it applies a replicated
\* mutation: the literal []
SyncPeers(w) == <<>>

\* process_message, is_sync_message=True
process_sync(w, message) ==
    IF StartsWith(message, P_BULLETIN) THEN
        LET parts == Split(message, Bar) IN
        IF Len(parts) < 6 THEN Raise(w, "IndexError")
        ELSE
        LET w1 == add_bulletin(w, parts[2], parts[3], parts[4], parts[5], SyncPeers(w), parts[6])
        IN  IF Lower(parts[2]) = Urgent
            THEN Reply(w1, UrgentNotice, BROADCAST_NUM, <<>>)
            ELSE w1
    ELSE IF StartsWith(message, P_MAIL) THEN
        LET parts == Split(message, Bar) IN
        IF Len(parts) < 7 THEN Raise(w, "IndexError")
        ELSE add_mail(w, parts[2], parts[3], parts[4], parts[5], parts[6], SyncPeers(w), parts[7])
    ELSE IF StartsWith(message, P_DELETE_BULLETIN) THEN
        delete_bulletin(w, Split(message, Bar)[2], SyncPeers(w))
    ELSE IF StartsWith(message, P_DELETE_MAIL) THEN
        LET unique_id == Split(message, Bar)[2]
        IN  delete_mail(w, unique_id, get_recipient_id_by_mail(w, unique_id), SyncPeers(w))
    ELSE IF StartsWith(message, P_CHANNEL) THEN
        LET parts == Split(message, Bar) IN
        IF Len(parts) < 3 THEN Raise(w, "IndexError")
        ELSE add_channel(w, parts[2], parts[3], <<>>)
    ELSE w

\* the keys of the handler table process_message selects for a session
HandlerKeys(state) ==
    IF state.command = "MENU"
    THEN IF state.menu = "bbs" THEN {"m", "b", "c", "j", "x"}
         ELSE IF state.menu = "utilities" THEN {"s", "f", "w", "x"}
         ELSE {"q", "b", "u", "x"}
    ELSE IF state.command = "BULLETIN_MENU" THEN {"g", "i", "n", "u", "x"}
    ELSE IF state.command = "BULLETIN_ACTION" THEN {"r", "p", "x"}
    ELSE {"q", "b", "u", "x"}

\* handlers[message_lower](sender_id, interface): the two-argument call of a table entry
CallHandler2(w, state, key, sender_id) ==
    IF state.command = "MENU" /\ state.menu = "bbs" THEN
        CASE key = "m" -> handle_mail_command(Enter(w, "handle_mail_command", 0), sender_id)
          [] key = "b" -> handle_bulletin_command(Enter(w, "handle_bulletin_command", 0), sender_id)
          [] key = "c" -> handle_channel_directory_command(
                              Enter(w, "handle_channel_directory_command", 0), sender_id)
          [] key = "j" -> handle_js8call_command(Enter(w, "handle_js8call_command", 0), sender_id)
          [] OTHER -> handle_help_command(Enter(w, "handle_help_command", 0), sender_id, "")
    ELSE IF state.command = "MENU" /\ state.menu = "utilities" THEN
        CASE key = "s" -> handle_stats_command(Enter(w, "handle_stats_command", 0), sender_id)
          [] key = "f" -> handle_fortune_command(Enter(w, "handle_fortune_command", 0), sender_id)
          [] key = "w" -> handle_wall_of_shame_command(
                              Enter(w, "handle_wall_of_shame_command", 0), sender_id)
          [] OTHER -> handle_help_command(Enter(w, "handle_help_command", 0), sender_id, "")
    ELSE IF state.command = "BULLETIN_MENU" THEN
        CASE key = "g" -> handle_bb_steps(Enter(w, "handle_bb_steps", 1), sender_id, <<"0">>, 1,
                                          [board |-> General], <<>>)
          [] key = "i" -> handle_bb_steps(Enter(w, "handle_bb_steps", 1), sender_id, <<"1">>, 1,
                                          [board |-> Info], <<>>)
          [] key = "n" -> handle_bb_steps(Enter(w, "handle_bb_steps", 1), sender_id, <<"2">>, 1,
                                          [board |-> News], <<>>)
          [] key = "u" -> handle_bb_steps(Enter(w, "handle_bb_steps", 1), sender_id, <<"3">>, 1,
                                          [board |-> UrgentBoard], <<>>)
          [] OTHER -> handle_help_command(Enter(w, "handle_help_command", 0), sender_id, "")
    ELSE
        CASE key = "q" -> handle_quick_help_command(
                              Enter(w, "handle_quick_help_command", 0), sender_id)
          [] key = "b" -> handle_help_command(Enter(w, "handle_help_command", 0), sender_id, "bbs")
          [] key = "u" -> handle_help_command(Enter(w, "handle_help_command", 0), sender_id,
                                              "utilities")
          [] OTHER -> handle_help_command(Enter(w, "handle_help_command", 0), sender_id, "")

\* handlers[message_lower](sender_id, interface, state): the three-argument call;
\* only the entries r and p of board_action_handlers take three arguments
CallHandler3(w, state, key, sender_id) ==
    IF state.command = "BULLETIN_ACTION"
    THEN IF key \in {"r", "p"}
         THEN handle_bb_steps(Enter(w, "handle_bb_steps", 2), sender_id, <<key>>, 2, state, <<>>)
         ELSE handle_help_command(Enter(w, "handle_help_command", 0), sender_id, "bbs")
    ELSE Raise(w, "TypeError")

QuickPrefixes == [sm |-> <<"s","m",",",",">>, cm |-> <<"c","m">>, pb |-> <<"p","b",",",",">>,
                  cb |-> <<"c","b",",",",">>, chp |-> <<"c","h","p",",",",">>,
                  chl |-> <<"c","h","l">>]

\* process_message, is_sync_message=False
process_user(w, sender_id, message) ==
    LET state == get_user_state(w, sender_id)
        message_lower == Unrepeat(Strip(Lower(message)))
        message_strip == Strip(message)
        nodes == w.peers
    IN
    IF StartsWith(message_lower, QuickPrefixes.sm) THEN
        handle_send_mail_command(Enter(w, "handle_send_mail_command", 0), sender_id,
                                 message_strip, nodes)
    ELSE IF StartsWith(message_lower, QuickPrefixes.cm) THEN
        handle_check_mail_command(Enter(w, "handle_check_mail_command", 0), sender_id)
    ELSE IF StartsWith(message_lower, QuickPrefixes.pb) THEN
        handle_post_bulletin_command(Enter(w, "handle_post_bulletin_command", 0), sender_id,
                                     message_strip, nodes)
    ELSE IF StartsWith(message_lower, QuickPrefixes.cb) THEN
        handle_check_bulletin_command(Enter(w, "handle_check_bulletin_command", 0), sender_id,
                                      message_strip)
    ELSE IF StartsWith(message_lower, QuickPrefixes.chp) THEN
        handle_post_channel_command(Enter(w, "handle_post_channel_command", 0), sender_id,
                                    message_strip)
    ELSE IF StartsWith(message_lower, QuickPrefixes.chl) THEN
        handle_list_channels_command(Enter(w, "handle_list_channels_command", 0), sender_id)
    ELSE IF state.command = "JS8CALL_MENU" THEN
        handle_js8call_steps(Enter(w, "handle_js8call_steps", state.step), sender_id, message,
                             state.step)
    ELSE IF state.command = "GROUP_MESSAGES" THEN
        handle_group_message_selection(Enter(w, "handle_group_message_selection", state.step),
                                       sender_id, message, state)
    ELSE IF message_lower = X THEN
        handle_help_command(Enter(w, "handle_help_command", 0), sender_id, "")
    ELSE IF Len(message_lower) = 1 /\ message_lower[1] \in HandlerKeys(state) THEN
        IF state.command \in {"BULLETIN_ACTION", "BULLETIN_READ", "BULLETIN_POST",
                              "BULLETIN_POST_CONTENT"}
        THEN CallHandler3(w, state, message_lower[1], sender_id)
        ELSE CallHandler2(w, state, message_lower[1], sender_id)
    ELSE IF HasState(state) THEN
        LET command == state.command
            step == state.step
        IN
        CASE command = "MAIL" ->
                handle_mail_steps(Enter(w, "handle_mail_steps", step), sender_id, message, step,
                                  state, nodes)
          [] command = "BULLETIN" ->
                handle_bb_steps(Enter(w, "handle_bb_steps", step), sender_id, message, step,
                                state, nodes)
          [] command = "STATS" ->
                handle_stats_steps(Enter(w, "handle_stats_steps", step), sender_id, message, step)
          [] command = "CHANNEL_DIRECTORY" ->
                handle_channel_directory_steps(Enter(w, "handle_channel_directory_steps", step),
                                               sender_id, message, step, state)
          [] command = "CHECK_MAIL" ->
                IF step = 1
                THEN handle_read_mail_command(Enter(w, "handle_read_mail_command", step),
                                              sender_id, message, state)
                ELSE IF step = 2
                THEN handle_delete_mail_confirmation(
                         Enter(w, "handle_delete_mail_confirmation", step), sender_id, message,
                         state, nodes)
                ELSE w
          [] command = "CHECK_BULLETIN" ->
                IF step = 1
                THEN handle_read_bulletin_command(Enter(w, "handle_read_bulletin_command", step),
                                                  sender_id, message, state)
                ELSE w
          [] command \in {"CHECK_CHANNEL", "LIST_CHANNELS"} ->
                IF step = 1
                THEN handle_read_channel_command(Enter(w, "handle_read_channel_command", step),
                                                 sender_id, message, state)
                ELSE w
          [] command = "BULLETIN_POST" ->
                handle_bb_steps(Enter(w, "handle_bb_steps", 4), sender_id, message, 4, state, nodes)
          [] command = "BULLETIN_POST_CONTENT" ->
                handle_bb_steps(Enter(w, "handle_bb_steps", 5), sender_id, message, 5, state, nodes)
          [] command = "BULLETIN_READ" ->
                handle_bb_steps(Enter(w, "handle_bb_steps", 3), sender_id, message, 3, state, nodes)
          [] OTHER -> handle_help_command(Enter(w, "handle_help_command", 0), sender_id, "")
    ELSE handle_help_command(Enter(w, "handle_help_command", 0), sender_id, "")

\* a router that opens the main menu for the sender of a line it applied
process_message_menu(w, sender_id, message, is_sync_message) ==
    IF is_sync_message
    THEN update_user_state(process_sync(w, message), sender_id,
                           [command |-> "MAIN_MENU", step |-> 1])
    ELSE process_user(w, sender_id, message)
\* message_processing.process_message
process_message(w, sender_id, message, is_sync_message) ==
    IF is_sync_message THEN process_sync(w, message) ELSE process_user(w, sender_id, message)

SyncPrefixes == {P_BULLETIN, P_MAIL, P_DELETE_BULLETIN, P_DELETE_MAIL}

IsSyncText(t) == \E p \in SyncPrefixes : StartsWith(t, p)

\* a receive handler that takes every sender for a peer
FromAnyone(w, from) == TRUE
\* whether on_receive takes the sender for a peer: sender_node_id in bbs_nodes
FromPeer(w, from) == from \in Range(w.peers)

\* a receive handler that takes every destination for its own address
AddressedAny(w, to) == TRUE
\* whether on_receive takes the packet for a direct message to this node: to_id is
\* set and equals interface.myInfo.my_node_num
Addressed(w, to) == ~IsNone(to) /\ to = Id(w.me)

\* message_processing.on_receive of a text packet [from, to, text]
on_receive(w, packet) ==
    LET is_sync_message == IsSyncText(packet.text)
        w1 == IF FromPeer(w, packet.from)
              THEN IF is_sync_message
                   THEN process_message(w, packet.from, packet.text, TRUE)
                   ELSE w
              ELSE IF Addressed(w, packet.to)
                   THEN process_message(w, packet.from, packet.text, FALSE)
                   ELSE w
    IN  IF w1.exc = "KeyError" THEN [w1 EXCEPT !.exc = ""] ELSE w1

-----------------------------------------------------------------------------
(* Actions.  One action is one run of a handler to completion.             *)

Composing(st) == st.command = "BULLETIN_POST_CONTENT" \/ (st.command = "MAIL" /\ st.step = 7)

BodyLines(st) == IF Composing(st) THEN Cardinality({i \in 1..Len(st.content) : st.content[i] = "\n"})
                 ELSE 0

\* the indices of the effects of tr that are lines the radio carries to BBS node m
LinesTo(tr, m) ==
    LET F[i \in 0..Len(tr)] ==
            IF i = 0 THEN <<>>
            ELSE IF tr[i].ev = "send" /\ tr[i].tag = "line" /\ tr[i].to = Id(m)
                 THEN Append(F[i - 1], i)
                 ELSE F[i - 1]
    IN  F[Len(tr)]

\* the rows of the commit that precedes effect j of tr: the mutation a line reports
SrcOf(tr, j) ==
    LET cs == {i \in 1..(j - 1) : tr[i].ev = "commit"}
    IN  IF cs = {} THEN <<>> ELSE tr[CHOOSE i \in cs : \A k \in cs : k <= i].rows

\* links after the radio took over the lines of tr sent by node n; hops is the
\* number of BBS nodes a line has left behind once it is in flight
Carry(n, tr, hops) ==
    [l \in DOMAIN links |->
        IF l[1] = n
        THEN links[l] \o [i \in 1..Len(LinesTo(tr, l[2])) |->
                            [text |-> tr[LinesTo(tr, l[2])[i]].text, hops |-> hops,
                             src |-> SrcOf(tr, LinesTo(tr, l[2])[i])]]
        ELSE links[l]]

\* the run stays within the bounds of the model
Bounded(w, newlinks) ==
    /\ w.uuid <= MaxKeys
    /\ w.db.mseq <= MaxRows
    /\ w.db.bseq <= MaxRows
    /\ w.db.cseq <= MaxChannels
    /\ \A a \in DOMAIN w.us : BodyLines(w.us[a]) <= MaxBody
    /\ \A l \in DOMAIN newlinks : Len(newlinks[l]) <= MaxQueue

\* on_receive runs at node n on packet, which left hops BBS nodes behind; the
\* packet was the head of links[taken] unless taken is NoLink, and src is the
\* mutation it reports
Handle(n, packet, hops, src, taken) ==
    \E w \in {on_receive(World(n), packet)} :
    \E newlinks \in {Carry(n, w.tr, hops + 1)} :
        /\ Bounded(w, newlinks)
        /\ db' = [db EXCEPT ![n] = w.db]
        /\ user_states' = [user_states EXCEPT ![n] = w.us]
        /\ uuid' = w.uuid
        /\ trace' = w.tr
        /\ links' = [l \in DOMAIN links |-> IF l = taken THEN Tail(newlinks[l]) ELSE newlinks[l]]
        /\ last' = [kind |-> "packet", node |-> n, from |-> packet.from, to |-> packet.to,
                    text |-> packet.text, hops |-> hops, src |-> src,
                    peer |-> packet.from \in Range(bbs_nodes[n]),
                    prev |-> user_states[n][packet.from], before |-> db[n],
                    exc |-> w.exc, hd |-> w.hd, ret |-> w.ret]
        /\ UNCHANGED <<bbs_nodes, allowed_nodes, hist>>

NoLink == <<"", "">>

\* a text packet from address a reaches node n over the radio, addressed to `to`
Receive(n, a, to, text) ==
    Handle(n, [from |-> a, to |-> to, text |-> text], 0, <<>>, NoLink)

\* the oldest replication line in flight from node m to node n reaches n
Deliver(m, n) ==
    /\ links[<<m, n>>] # <<>>
    /\ Handle(n, [from |-> m, to |-> Id(n), text |-> Head(links[<<m, n>>]).text],
              Head(links[<<m, n>>]).hops, Head(links[<<m, n>>]).src, <<m, n>>)

\* db_operations.delete_bulletin(id, bbs_nodes, interface) is called at node n for a
\* stored bulletin
DeleteBulletin(n, id) ==
    \E w \in {delete_bulletin(World(n), IntText(id), bbs_nodes[n])} :
    \E newlinks \in {Carry(n, w.tr, 1)} :
        /\ \E i \in 1..Len(db[n].bulletins) : db[n].bulletins[i].id = id
        /\ Bounded(w, newlinks)
        /\ db' = [db EXCEPT ![n] = w.db]
        /\ trace' = w.tr
        /\ links' = newlinks
        /\ last' = [kind |-> "delete_bulletin", node |-> n, from |-> n, to |-> Id(n),
                    text |-> IntText(id), hops |-> 0, src |-> <<>>, peer |-> FALSE,
                    prev |-> NoState, before |-> db[n], exc |-> w.exc, hd |-> w.hd,
                    ret |-> w.ret]
        /\ hist' = [hist EXCEPT !.deleted = @ \cup {r.unique_id : r \in Range(w.tr[1].rows)}]
        /\ UNCHANGED <<user_states, bbs_nodes, allowed_nodes, uuid>>

Links == (Nodes \X Nodes) \ {<<n, n>> : n \in Nodes}

NoLast == [kind |-> "none", node |-> "", from |-> "", to |-> <<>>, text |-> <<>>, hops |-> 0,
           src |-> <<>>, peer |-> FALSE, prev |-> NoState, before |-> EmptyDb, exc |-> "", hd |-> <<>>,
           ret |-> NoneT]

\* the state after initialize_database() at every node, with the given configuration
Start(peers, allowed) ==
    /\ db = [n \in Nodes |-> EmptyDb]
    /\ user_states = [n \in Nodes |-> [a \in Addrs |-> NoState]]
    /\ bbs_nodes = peers
    /\ allowed_nodes = allowed
    /\ links = [l \in Links |-> <<>>]
    /\ uuid = 0
    /\ trace = <<>>
    /\ last = NoLast
    /\ hist = [deleted |-> {}]

-----------------------------------------------------------------------------
(* Specifications.  Each one fixes a configuration (the peer lists and the *)
(* allow-lists) and the texts that users send; the radio delivers the      *)
(* replication lines in flight, each link in order.                        *)

T_CM == <<"C","M">>
T_1 == <<"1">>
T_d == <<"d">>
T_2 == <<"2">>
T_u == <<"u">>
T_q == <<"q">>
T_s == <<"s">>
T_b == <<"b">>
T_m == <<"m">>
T_r == <<"r">>
T_g == <<"g">>
T_p == <<"p">>
T_a == <<"a">>
T_al == <<"a","l">>
T_end == <<"e","n","d">>
T_SMself == <<"S","M",",",",","a","l",",",",","a",",",",","c">>
T_SMselfbar == <<"S","M",",",",","a","l",",",",","a","|","b",",",",","c">>
T_SM == <<"S","M",",",",","b","o",",",",","a",",",",","c">>
T_PBurgent == <<"P","B",",",",","U","r","g","e","n","t",",",",","a",",",",","c">>
T_PB == <<"P","B",",",",","N","e","w","s",",",",","a",",",",","c">>
T_CHP == <<"C","H","P",",",",","|","n","|","u">>
T_SMbar == <<"S","M",",",",","b","o",",",",","a","|","b",",",",","c">>
T_SMbody == <<"S","M",",",",","b","o",",",",","a",",",",","c","|","d">>
T_PBbar == <<"P","B",",",",","N","e","w","s",",",",","a","|","b",",",",","c">>
T_PBbody == <<"P","B",",",",","N","e","w","s",",",",","a",",",",","c","|","d">>

\* no replication line is in flight
Quiescent == \A l \in Links : links[l] = <<>>

\* the radio delivers on a link that has a line in flight
RadioDelivers == \E l \in {k \in Links : links[k] # <<>>} : Deliver(l[1], l[2])

\* whether a user in session st types text t: a short name when asked for one, a
\* one-letter subject, a one-letter body line or the end marker, and anything in
\* every other session
Fits(st, t) ==
    IF st.command = "MAIL" /\ st.step = 3 THEN t = T_al
    ELSE IF (st.command = "MAIL" /\ st.step = 5) \/ st.command = "BULLETIN_POST" THEN t = T_a
    ELSE IF Composing(st) THEN t \in {T_a, T_end}
    ELSE TRUE

\* a user sends a node one of the texts of talk, a set of <<node, user, text>>
Says(talk) ==
    \E x \in {y \in talk : Fits(user_states[y[1]][y[2]], y[3])} :
        Receive(x[1], x[2], Id(x[1]), x[3])

-----------------------------------------------------------------------------
(* The federation: three nodes, each naming the two others as peers.       *)

FullMesh == [n \in Nodes |-> CASE n = "n1" -> <<"n2", "n3">>
                               [] n = "n2" -> <<"n1", "n3">>
                               [] OTHER    -> <<"n1", "n2">>]

NoAllowList == [n \in Nodes |-> <<>>]

InitFed == Start(FullMesh, NoAllowList)

\* u1 writes at n1, u2 reads at n2
FedTalk == {<<"n1", "u1", T_SM>>, <<"n2", "u2", T_CM>>, <<"n2", "u2", T_1>>, <<"n2", "u2", T_d>>}

UserSendsFed == Says(FedTalk)

NextFed == UserSendsFed \/ RadioDelivers

SpecFed == InitFed /\ [][NextFed]_vars

MailKeys(n) == {db[n].mail[i].unique_id : i \in 1..Len(db[n].mail)}

\* C4: in the full mesh of three nodes, whenever no replication line is in flight
\* all nodes hold the same set of mail replication keys.
C4_MailConverges == Quiescent => \A n, m \in Nodes : MailKeys(n) = MailKeys(m)

-----------------------------------------------------------------------------
(* Round trip: n1 and n2 name each other as peers; u1 creates mail and     *)
(* bulletins at n1 whose subject or body may hold the field delimiter.     *)

Pair == [n \in Nodes |-> CASE n = "n1" -> <<"n2">>
                           [] n = "n2" -> <<"n1">>
                           [] OTHER    -> <<>>]

InitRT == Start(Pair, NoAllowList)

RTTalk == {<<"n1", "u1", t>> : t \in {T_SM, T_SMbar, T_SMbody, T_PB, T_PBbar, T_PBbody}}

UserSendsRT == Says(RTTalk)

NextRT == UserSendsRT \/ RadioDelivers

SpecRT == InitRT /\ [][NextRT]_vars

SameMail(r, o) ==
    /\ r.sender = o.sender
    /\ r.recipient = o.recipient
    /\ r.subject = o.subject
    /\ r.content = o.content
    /\ r.unique_id = o.unique_id

SameBulletin(r, o) ==
    /\ r.board = o.board
    /\ r.subject = o.subject
    /\ r.content = o.content
    /\ r.unique_id = o.unique_id

\* the last step applied a peer's creation line and committed a row that matches
\* the row the line was sent for
Stored(stmt) ==
    \E i \in 1..Len(trace) :
        /\ trace[i].ev = "commit"
        /\ trace[i].tag = stmt
        /\ Len(trace[i].rows) = 1
        /\ IF stmt = "insert_mail" THEN SameMail(trace[i].rows[1], last.src[1])
                                   ELSE SameBulletin(trace[i].rows[1], last.src[1])

AppliedCreation ==
    /\ last.kind = "packet"
    /\ last.peer
    /\ last.src # <<>>
    /\ StartsWith(last.text, P_MAIL) \/ StartsWith(last.text, P_BULLETIN)

\* C1: a creation line applied at a peer stores a record whose sender and recipient
\* (or board), subject, body and replication key equal those of the record it was
\* encoded from, also when the subject or the body holds the delimiter '|'.
C1_RoundTrip ==
    AppliedCreation =>
        Stored(IF StartsWith(last.text, P_MAIL) THEN "insert_mail" ELSE "insert_bulletin")

-----------------------------------------------------------------------------
(* Replication in the full mesh: u1 creates and deletes at n1, and a       *)
(* bulletin stored at n1 is deleted through db_operations.delete_bulletin. *)

LoopTalk == {<<"n1", "u1", T_SMself>>, <<"n1", "u1", T_PB>>, <<"n1", "u1", T_CM>>,
             <<"n1", "u1", T_1>>, <<"n1", "u1", T_d>>}

UserSendsLoop == Says(LoopTalk)

StoredIds(n) == {db[n].bulletins[i].id : i \in 1..Len(db[n].bulletins)}

BulletinDeleted == \E id \in StoredIds("n1") : DeleteBulletin("n1", id)

NextLoop == UserSendsLoop \/ BulletinDeleted \/ RadioDelivers

SpecLoop == InitFed /\ [][NextLoop]_vars

\* the last step applied a replication line that a peer sent
AppliedLine == last.kind = "packet" /\ last.peer /\ IsSyncText(last.text)

LineSent == \E i \in 1..Len(trace) : trace[i].ev = "send" /\ trace[i].tag = "line"
                                      /\ \E m \in Nodes : trace[i].to = Id(m)

Committed(stmt) == \E i \in 1..Len(trace) : trace[i].ev = "commit" /\ trace[i].tag = stmt
                                             /\ trace[i].rows # <<>>

\* C2: applying an inbound replication line sends no replication line to any node,
\* and every line in flight has left exactly one node behind: the one where the
\* mutation originated.
C2_NoForward ==
    /\ AppliedLine => ~LineSent
    /\ \A l \in Links : \A i \in 1..Len(links[l]) : links[l][i].hops = 1

\* a peer's DELETE_MAIL line was applied and removed a row
C2_Witness == AppliedLine /\ StartsWith(last.text, P_DELETE_MAIL) /\ Committed("delete_mail")

-----------------------------------------------------------------------------
(* Bulletin deletion between two peers: u1 posts at n1, u2 posts at n2,    *)
(* and a stored bulletin is deleted at either node through                 *)
(* db_operations.delete_bulletin.                                          *)

DelBTalk == {<<"n1", "u1", T_PB>>, <<"n2", "u2", T_PB>>}

UserSendsDelB == Says(DelBTalk)

BulletinDeletedAt ==
    \E x \in {y \in {"n1", "n2"} \X (1..MaxRows) : y[2] \in StoredIds(y[1])} : DeleteBulletin(x[1], x[2])

NextDelB == UserSendsDelB \/ BulletinDeletedAt \/ RadioDelivers

SpecDelB == InitRT /\ [][NextDelB]_vars

BulletinKeys(d) == {d.bulletins[i].unique_id : i \in 1..Len(d.bulletins)}

\* C6: the bulletins that applying a peer's DELETE_BULLETIN line removes carry the
\* replication key of a bulletin that was deleted at the originating node.
C6_DeleteByKey ==
    (AppliedLine /\ StartsWith(last.text, P_DELETE_BULLETIN)) =>
        (BulletinKeys(last.before) \ BulletinKeys(db[last.node])) \subseteq hist.deleted

-----------------------------------------------------------------------------
(* Local mutations in the full mesh: u1 creates mail, bulletins and a      *)
(* channel at n1 and deletes mail there, through the menus and through the *)
(* quick commands.                                                         *)

FanTalk == {<<"n1", "u1", t>> : t \in {T_SMself, T_CHP, T_CM, T_b, T_m, T_r, T_g, T_p, T_a, T_end,
                                       T_1, T_d}}

\* u1 types when the radio is idle
UserSendsFan == Quiescent /\ Says(FanTalk)

NextFan == UserSendsFan \/ RadioDelivers

SpecFan == InitFed /\ [][NextFan]_vars

\* the replication line of a committed mutation
LineOf(c) ==
    LET r == c.rows[1] IN
    CASE c.tag = "insert_mail" ->
            P_MAIL \o r.sender \o Bar \o r.sender_short_name \o Bar \o r.recipient \o Bar
                   \o r.subject \o Bar \o r.content \o Bar \o r.unique_id
      [] c.tag = "insert_bulletin" ->
            P_BULLETIN \o r.board \o Bar \o r.sender_short_name \o Bar \o r.subject \o Bar
                       \o r.content \o Bar \o r.unique_id
      [] c.tag = "insert_channel" -> P_CHANNEL \o r.name \o Bar \o r.url
      [] c.tag = "delete_mail" -> P_DELETE_MAIL \o r.unique_id
      [] OTHER -> <<>>

Commits == {i \in 1..Len(trace) : trace[i].ev = "commit" /\ trace[i].rows # <<>>}

LinesFor(p) == {j \in 1..Len(trace) : trace[j].ev = "send" /\ trace[j].tag = "line"
                                       /\ trace[j].to = Id(p)}

\* the last step was a message of a user, handled at a node that has peers
LocalStep == last.kind = "packet" /\ ~last.peer /\ bbs_nodes[last.node] # <<>>

C14_ChannelApplied ==
    (/\ last.kind = "packet"
     /\ last.peer
     /\ StartsWith(last.text, P_CHANNEL)
     /\ last.src # <<>>)
    => /\ \E i \in 1..Len(db[last.node].channels) :
              /\ db[last.node].channels[i].name = last.src[1].name
              /\ db[last.node].channels[i].url = last.src[1].url
       /\ ~LineSent

-----------------------------------------------------------------------------
(* Mail deletion between two peers: u1 writes at n1 to u1 and to u2, with  *)
(* and without the delimiter in the subject, and reads and deletes at n2.  *)

DelTalk == {<<"n1", "u1", T_SMself>>, <<"n1", "u1", T_SM>>, <<"n1", "u1", T_SMselfbar>>,
            <<"n1", "u1", T_SMbar>>, <<"n2", "u1", T_CM>>, <<"n2", "u1", T_1>>,
            <<"n2", "u1", T_d>>}

UserSendsDel == Says(DelTalk)

NextDel == UserSendsDel \/ RadioDelivers

SpecDel == InitRT /\ [][NextDel]_vars

\* the keys delete_mail was called with in the last step: the key of a peer's
\* DELETE_MAIL line, or the key of the rows a handler deleted for a user
DeleteMailKeys ==
    IF AppliedLine /\ StartsWith(last.text, P_DELETE_MAIL)
    THEN {Split(last.text, Bar)[2]}
    ELSE {trace[i].rows[1].unique_id : i \in {j \in Commits : trace[j].tag = "delete_mail"}}

\* C7: delete_mail(key, ...) removes every mail row whose replication key is key and
\* leaves every other row, every bulletin and every channel as it was; for a key
\* that matches no row it changes nothing and sends no line.
C7_DeleteMailFrame ==
    last.kind = "packet" =>
        \A key \in DeleteMailKeys :
            LET Other(r) == r.unique_id # key IN
            /\ db[last.node].mail = SelectSeq(last.before.mail, Other)
            /\ db[last.node].bulletins = last.before.bulletins
            /\ db[last.node].channels = last.before.channels
            /\ (SelectSeq(last.before.mail, Other) = last.before.mail) => ~LineSent

-----------------------------------------------------------------------------
(* Who may replicate: n1 names n2 as its peer.  u1 creates records at n1,  *)
(* and both u1, who is no peer, and n2 send n1 texts that begin with a     *)
(* replication prefix, addressed to n1 or to everyone, when the radio is   *)
(* idle.                                                                   *)

L_MAIL == <<"M","A","I","L","|","u1","|","A","L","|","u1","|","a","|","c","|","k5">>
L_BULLETIN == <<"B","U","L","L","E","T","I","N","|","N","e","w","s","|","A","L","|","a","|","c","|","k6">>
L_DELETE_MAIL == <<"D","E","L","E","T","E","_","M","A","I","L","|","k1">>
L_DELETE_BULLETIN == <<"D","E","L","E","T","E","_","B","U","L","L","E","T","I","N","|","1">>

PeerLines == {L_MAIL, L_BULLETIN, L_DELETE_MAIL, L_DELETE_BULLETIN}

Everyone == {Id("n1"), BROADCAST_NUM}

UserPackets == {<<"u1", to, t>> : to \in Everyone, t \in PeerLines \cup {T_SMself, T_PB}}

PeerPackets == {<<"n2", to, t>> : to \in Everyone, t \in PeerLines}

\* u1 or n2 sends n1 a text when the radio is idle
SendsPeer ==
    \E x \in {y \in UserPackets \cup PeerPackets : Quiescent} : Receive("n1", x[1], x[2], x[3])

NextPeer == SendsPeer \/ RadioDelivers

SpecPeer == InitRT /\ [][NextPeer]_vars

\* the last step was a text with a replication prefix from an address that is not
\* in the peer list of the node
ForeignLine == last.kind = "packet" /\ IsSyncText(last.text) /\ ~last.peer

\* C8: a text that begins with a replication prefix and comes from an address
\* outside the peer list leaves the store of the node as it was.
C8_OnlyFromPeers == ForeignLine => db[last.node] = last.before

\* u1 sent n1 the DELETE_MAIL line of a mail that n1 holds
C8_Witness ==
    /\ ForeignLine
    /\ last.to = Id(last.node)
    /\ last.text = L_DELETE_MAIL
    /\ \E i \in 1..Len(last.before.mail) : last.before.mail[i].unique_id = <<"k1">>

-----------------------------------------------------------------------------
(* One node without peers.                                                 *)

NoPeers == [n \in Nodes |-> <<>>]

\* n1 lets u1 alone post to the Urgent board
OnlyU1 == [n \in Nodes |-> IF n = "n1" THEN <<"u1">> ELSE <<>>]

-----------------------------------------------------------------------------
(* The Urgent board: u1 and u2 post at n1 through the bulletin menu and    *)
(* through the PB quick command.                                           *)

InitGate == Start(NoPeers, OnlyU1)

GateTalk == {<<"n1", a, t>> : a \in Users, t \in {T_PBurgent, T_b, T_u, T_p, T_a, T_end}}

NextGate == Says(GateTalk)

SpecGate == InitGate /\ [][NextGate]_vars

\* C9: with a non-empty allow-list, a message from an address outside the list
\* stores no bulletin on the board Urgent, in any letter case.
C9_UrgentGated ==
    (/\ last.kind = "packet"
     /\ allowed_nodes[last.node] # <<>>
     /\ last.from \notin Range(allowed_nodes[last.node]))
    => \A i \in Commits : trace[i].tag = "insert_bulletin" => Lower(trace[i].rows[1].board) # Urgent

-----------------------------------------------------------------------------
(* Reading mail: u1 writes to u1 and to u2 at n1; both read at n1, from    *)
(* the mail menu and with the CM quick command.                            *)

InitRead == Start(NoPeers, NoAllowList)

ReadTalk == {<<"n1", "u1", T_SMself>>, <<"n1", "u1", T_SM>>}
            \cup {<<"n1", a, t>> : a \in Users, t \in {T_CM, T_1, T_2, T_b, T_m, T_r}}

NextRead == Says(ReadTalk)

SpecRead == InitRead /\ [][NextRead]_vars

\* the mail rows that effect e shows to its addressee
Shown(e) == {r \in Range(e.rows) : "recipient" \in DOMAIN r}

HasBoth(n, id, a) == \E i \in 1..Len(db[n].mail) : db[n].mail[i].id = id /\ db[n].mail[i].recipient = Id(a)

\* C10: a text that shows a stored mail goes to the recipient stored with the mail,
\* and get_mail_content(id, recipient) is empty unless a mail has that id and that
\* recipient.
C10_ReadAccess ==
    /\ \A i \in 1..Len(trace) :
          trace[i].ev = "send" => \A r \in Shown(trace[i]) : r.recipient = trace[i].to
    /\ \A n \in Nodes : \A id \in 1..MaxRows : \A a \in Users :
          ~HasBoth(n, id, a) => get_mail_content(World(n), id, Id(a)) = <<>>

\* u2 asked for a mail by the number of a mail that is stored for u1 and was shown
\* none
C10_Witness ==
    /\ last.kind = "packet"
    /\ last.from = "u2"
    /\ IsInt(last.text)
    /\ last.prev.command = "MAIL"
    /\ last.prev.step = 2
    /\ \E i \in 1..Len(db[last.node].mail) :
          /\ db[last.node].mail[i].recipient = Id("u1")
          /\ IdMatches(db[last.node].mail[i].id, last.text)
    /\ \A i \in 1..Len(trace) : Shown(trace[i]) = {}


\* the last step was a text from a user, addressed to the node
UserStep == last.kind = "packet" /\ ~last.peer /\ last.to = Id(last.node)

\* the last step sent the text that begins with tag to the address it came from
Answered(tag) ==
    \E i \in 1..Len(trace) :
        trace[i].ev = "send" /\ trace[i].tag = tag /\ trace[i].to = Id(last.from)

\* C15 as stated: an address without a session that sends "M" is answered with the
\* mail menu and gets the session {command: MAIL, step: 1}.
C15_MailFromNoSession ==
    (UserStep /\ last.prev = NoState /\ Lower(Strip(last.text)) = T_m)
    => /\ Answered("Mail Menu")
       /\ user_states[last.node][last.from] = [command |-> "MAIL", step |-> 1]

\* C15, amended: an address whose session is the BBS menu and that sends "M" is
\* answered with the mail menu and gets the session {command: MAIL, step: 1}.
C15_MailEntry ==
    (/\ UserStep
     /\ last.prev = [command |-> "MENU", menu |-> "bbs", step |-> 1]
     /\ Lower(Strip(last.text)) = T_m)
    => /\ Answered("Mail Menu")
       /\ user_states[last.node][last.from] = [command |-> "MAIL", step |-> 1]

\* u2 opened the mail menu from the BBS menu
C15_Witness ==
    /\ UserStep
    /\ last.from = "u2"
    /\ last.prev = [command |-> "MENU", menu |-> "bbs", step |-> 1]
    /\ last.text = T_m
    /\ user_states[last.node][last.from].command = "MAIL"

\* the mail stored at the node of the last step, before the step, for its sender
MailboxBefore ==
    {i \in 1..Len(last.before.mail) : last.before.mail[i].recipient = Id(last.from)}

\* C16: an address whose mailbox is empty and whose session is {MAIL, step 1} sends
\* "R": the one answer is "There are no messages in your mailbox." and the session
\* of the address is cleared.
C16_EmptyMailbox ==
    (/\ UserStep
     /\ last.prev = [command |-> "MAIL", step |-> 1]
     /\ Lower(Strip(last.text)) = T_r
     /\ MailboxBefore = {})
    => /\ Len(trace) = 1
       /\ Answered("There are no messages in your mailbox.")
       /\ user_states[last.node][last.from] = NoState

\* u2 asked to read while the node held mail for u1 only
C16_Witness ==
    /\ UserStep
    /\ last.from = "u2"
    /\ last.prev = [command |-> "MAIL", step |-> 1]
    /\ last.text = T_r
    /\ MailboxBefore = {}
    /\ last.before.mail # <<>>

-----------------------------------------------------------------------------
(* Routing: u1 talks to n1, and types any of the texts in any session.     *)

RouteTalk == {<<"n1", "u1", t>> : t \in {T_b, T_m, T_s, T_u, T_q, T_r, T_al, T_a, T_1, T_CM}}

NextRoute == \E x \in RouteTalk : Receive(x[1], x[2], Id(x[1]), x[3])

SpecRoute == InitRead /\ [][NextRoute]_vars

\* the sessions that a step handler stores: the commands process_message routes by
\* (command, step)
StepCommands == {"MAIL", "BULLETIN", "STATS", "CHANNEL_DIRECTORY", "CHECK_MAIL", "CHECK_BULLETIN",
                 "CHECK_CHANNEL", "LIST_CHANNELS", "BULLETIN_POST", "BULLETIN_POST_CONTENT",
                 "BULLETIN_READ", "JS8CALL_MENU", "GROUP_MESSAGES"}

\* the step handler of a session, and the step it is given
StepHandler(st) ==
    CASE st.command = "MAIL" -> [fn |-> "handle_mail_steps", step |-> st.step]
      [] st.command = "BULLETIN" -> [fn |-> "handle_bb_steps", step |-> st.step]
      [] st.command = "STATS" -> [fn |-> "handle_stats_steps", step |-> st.step]
      [] st.command = "CHANNEL_DIRECTORY" ->
            [fn |-> "handle_channel_directory_steps", step |-> st.step]
      [] st.command = "CHECK_MAIL" ->
            [fn |-> IF st.step = 1 THEN "handle_read_mail_command"
                                   ELSE "handle_delete_mail_confirmation", step |-> st.step]
      [] st.command = "CHECK_BULLETIN" -> [fn |-> "handle_read_bulletin_command", step |-> st.step]
      [] st.command \in {"CHECK_CHANNEL", "LIST_CHANNELS"} ->
            [fn |-> "handle_read_channel_command", step |-> st.step]
      [] st.command = "BULLETIN_POST" -> [fn |-> "handle_bb_steps", step |-> 4]
      [] st.command = "BULLETIN_POST_CONTENT" -> [fn |-> "handle_bb_steps", step |-> 5]
      [] st.command = "BULLETIN_READ" -> [fn |-> "handle_bb_steps", step |-> 3]
      [] st.command = "JS8CALL_MENU" -> [fn |-> "handle_js8call_steps", step |-> st.step]
      [] OTHER -> [fn |-> "handle_group_message_selection", step |-> st.step]

\* a session that only a step handler stores: a step after the entry step, or one of
\* the bulletin sessions
StepStored(st) ==
    /\ st.command \in StepCommands
    /\ st.command \in {"BULLETIN_POST", "BULLETIN_POST_CONTENT", "BULLETIN_READ"} \/ st.step > 1

\* a text that process_message takes for a quick command
Quick(t) == \E k \in DOMAIN QuickPrefixes : StartsWith(Unrepeat(Strip(Lower(t))), QuickPrefixes[k])

\* C3: a message of an address whose session was stored by a step handler is handed
\* to the step handler of the session's (command, step) and to no other handler,
\* whatever its text, quick commands apart.
C3_SessionContinuity ==
    (/\ last.kind = "packet"
     /\ ~last.peer
     /\ last.to = Id(last.node)
     /\ StepStored(last.prev)
     /\ ~Quick(last.text))
    => last.hd = <<StepHandler(last.prev)>>

-----------------------------------------------------------------------------
(* Replication between two peers once the radio has delivered every line:  *)
(* send_message hands each line to the interface once, and Quiescent holds *)
(* when every line handed over has reached the peer.                       *)

\* an SM command whose body has as many characters as one packet holds
T_SMlong == <<"S","M",",",",","b","o",",",",","a",",",",">> \o [i \in 1..max_payload_size |-> "a"]

\* u1 writes at n1, texts without the delimiter; u2 checks the mail at n2
LongTalk == {<<"n1", "u1", t>> : t \in {T_SM, T_SMlong, T_PB}}
            \cup {<<"n2", "u2", t>> : t \in {T_CM, T_1}}

UserSendsLong == Says(LongTalk)

NextLong == UserSendsLong \/ RadioDelivers

SpecLong == InitRT /\ [][NextLong]_vars

\* the replication keys of the mail and the bulletins stored at node n
KeysAt(n) == MailKeys(n) \cup {db[n].bulletins[i].unique_id : i \in 1..Len(db[n].bulletins)}

\* C11: n1 and n2 name each other as peers; once the radio has delivered every line,
\* each mail and bulletin that u1 committed at n1 is stored at n2 under the same
\* replication key.
C11_PeerDelivered == Quiescent => \A k \in KeysAt("n1") : k \in KeysAt("n2")

-----------------------------------------------------------------------------
(* Replay: n2, a peer of n1, sends n1 the same creation lines more than    *)
(* once, and deletion lines that carry the key of those records.           *)

L_DELETE_MAIL_K5 == <<"D","E","L","E","T","E","_","M","A","I","L","|","k5">>
L_DELETE_BULLETIN_K6 == <<"D","E","L","E","T","E","_","B","U","L","L","E","T","I","N","|","k6">>

ReplayLines == {L_MAIL, L_BULLETIN, L_DELETE_MAIL_K5, L_DELETE_BULLETIN_K6, L_DELETE_BULLETIN}

PeerReplays == \E t \in ReplayLines : Receive("n1", "n2", Id("n1"), t)

NextReplay == PeerReplays

SpecReplay == InitRT /\ [][NextReplay]_vars

\* the rows of a table that carry replication key k
WithKey(rows, k) == LET Keyed(r) == r.unique_id = k IN SelectSeq(rows, Keyed)

\* the replication key a line carries: its last field
LineKey(t) == Split(t, Bar)[Len(Split(t, Bar))]

\* the rows of rows have pairwise distinct local ids
DistinctIds(rows) == \A i, j \in 1..Len(rows) : i # j => rows[i].id # rows[j].id

\* C12: a creation line applied at a node that already holds a row under the key of
\* the line adds one more row under that key with a local id of its own, and a
\* deletion line that carries the key of two such rows leaves no row under that key.
C12_Replay ==
    AppliedLine =>
        LET k == LineKey(last.text)
            n == last.node
        IN  /\ last.text = L_MAIL =>
                /\ Len(WithKey(db[n].mail, k)) = Len(WithKey(last.before.mail, k)) + 1
                /\ DistinctIds(WithKey(db[n].mail, k))
            /\ last.text = L_BULLETIN =>
                /\ Len(WithKey(db[n].bulletins, k)) = Len(WithKey(last.before.bulletins, k)) + 1
                /\ DistinctIds(WithKey(db[n].bulletins, k))
            /\ (last.text = L_DELETE_MAIL_K5 /\ Len(WithKey(last.before.mail, k)) = 2)
                   => WithKey(db[n].mail, k) = <<>>
            /\ (last.text = L_DELETE_BULLETIN_K6 /\ Len(WithKey(last.before.bulletins, k)) = 2)
                   => WithKey(db[n].bulletins, k) = <<>>

-----------------------------------------------------------------------------
(* The record store called directly: a caller at n1 adds mail and          *)
(* bulletins, with and without a replication key of its own.               *)

\* the keys a caller supplies: None, the empty text, and two keys of a peer
SuppliedKeys == {NoneT, <<>>, <<"k5">>, <<"k6">>}

\* db_operations.add_mail is called at node n for mail from a to a; the key the
\* caller supplied is kept in last.text, the key returned in last.ret
AddMail(n, a, key) ==
    \E w \in {add_mail(World(n), Id(a), NodeDir[a].shortName, Id(a), T_a, T_a, <<>>, key)} :
        /\ Bounded(w, links)
        /\ db' = [db EXCEPT ![n] = w.db]
        /\ uuid' = w.uuid
        /\ trace' = w.tr
        /\ last' = [kind |-> "add_mail", node |-> n, from |-> a, to |-> Id(n), text |-> key,
                    hops |-> 0, src |-> <<>>, peer |-> FALSE, prev |-> NoState,
                    before |-> db[n], exc |-> w.exc, hd |-> w.hd, ret |-> w.ret]
        /\ UNCHANGED <<user_states, bbs_nodes, allowed_nodes, links, hist>>

\* db_operations.add_bulletin is called at node n for a bulletin of a
AddBulletin(n, a, key) ==
    \E w \in {add_bulletin(World(n), News, NodeDir[a].shortName, T_a, T_a, <<>>, key)} :
        /\ Bounded(w, links)
        /\ db' = [db EXCEPT ![n] = w.db]
        /\ uuid' = w.uuid
        /\ trace' = w.tr
        /\ last' = [kind |-> "add_bulletin", node |-> n, from |-> a, to |-> Id(n), text |-> key,
                    hops |-> 0, src |-> <<>>, peer |-> FALSE, prev |-> NoState,
                    before |-> db[n], exc |-> w.exc, hd |-> w.hd, ret |-> w.ret]
        /\ UNCHANGED <<user_states, bbs_nodes, allowed_nodes, links, hist>>

MailAdded == \E key \in SuppliedKeys : AddMail("n1", "u1", key)

BulletinAdded == \E key \in SuppliedKeys : AddBulletin("n1", "u1", key)

NextStore == MailAdded \/ BulletinAdded

SpecStore == InitRead /\ [][NextStore]_vars

\* the last step was a call of add_mail or add_bulletin
Added == last.kind \in {"add_mail", "add_bulletin"}

\* the caller supplied a key of its own
Supplied == last.text # NoneT /\ last.text # <<>>

\* the replication keys of the rows of a store
KeysOf(d) == {d.mail[i].unique_id : i \in 1..Len(d.mail)}
             \cup {d.bulletins[i].unique_id : i \in 1..Len(d.bulletins)}

\* C13: add_bulletin and add_mail return a non-empty key and store the new row under
\* it; a non-empty key the caller supplied is the key returned, and otherwise the key
\* returned is one the store did not hold before.
C13_KeyEcho ==
    Added =>
        /\ last.ret # <<>>
        /\ last.ret # NoneT
        /\ Len(trace) = 1
        /\ trace[1].ev = "commit"
        /\ trace[1].rows[1].unique_id = last.ret
        /\ trace[1].rows[1] \in Range(IF last.kind = "add_mail" THEN db[last.node].mail
                                                               ELSE db[last.node].bulletins)
        /\ Supplied => last.ret = last.text
        /\ ~Supplied => last.ret \notin KeysOf(last.before)

\* add_mail was given a key that the store holds already, and then none
C13_Witness ==
    /\ Added
    /\ last.kind = "add_mail"
    /\ ~Supplied
    /\ \E i \in 1..Len(last.before.mail) : last.before.mail[i].unique_id = <<"k5">>

-----------------------------------------------------------------------------
(* The SM quick command: u1 sends n1 mail for a short name that one node   *)
(* carries, that two nodes carry, and that no node carries, and a command  *)
(* that lacks a field; u1 and u2 read and delete their mail.               *)

T_SMupper == <<"S","M",",",",","B","O",",",",","a",",",",","c">>
T_SMmixed == <<"s","m",",",",","A","l",",",",","a",",",",","c">>
T_SMtwo == <<"S","M",",",",","n","2",",",",","a",",",",","c">>
T_SMnone == <<"S","M",",",",","z","z",",",",","a",",",",","c">>
T_SMshort == <<"S","M",",",",","a","l",",",",","a">>

SMTalk == {<<"n1", "u1", t>> : t \in {T_SMupper, T_SMmixed, T_SMtwo, T_SMnone, T_SMshort}}
          \cup {<<"n1", a, t>> : a \in Users, t \in {T_CM, T_1, T_d}}

NextSM == Says(SMTalk)

SpecSM == InitRead /\ [][NextSM]_vars

\* the addresses whose short name is name, letter case aside
Named(name) == {a \in Addrs : Lower(NodeDir[a].shortName) = Lower(name)}

\* the fields of an SM command
SMFields == SplitMax(Strip(last.text), Commas, 3)

\* the last step was an SM quick command
SMStep == UserStep /\ StartsWith(Lower(Strip(last.text)), <<"s","m",",",",">>)

\* the indices of the mail notifications of the last step
Notices == {i \in 1..Len(trace) : trace[i].ev = "send" /\ trace[i].tag = NewMailNotice}

\* the indices of the effects of the last step that stored a mail
MailCommits == {i \in Commits : trace[i].tag = "insert_mail"}

\* C17: an SM command of four fields whose name is the short name of exactly one node,
\* letter case aside, stores exactly one mail, for that node, and sends that node's
\* address one notification; any other SM command stores no mail and sends no
\* notification.
C17_SendMail ==
    SMStep =>
        IF Len(SMFields) = 4 /\ Cardinality(Named(SMFields[2])) = 1
        THEN \E a \in Named(SMFields[2]) :
                /\ \E i \in MailCommits :
                      /\ MailCommits = {i}
                      /\ trace[i].rows[1].recipient = Id(a)
                      /\ trace[i].rows[1].sender = Id(last.from)
                      /\ trace[i].rows[1].subject = SMFields[3]
                      /\ trace[i].rows[1].content = SMFields[4]
                      /\ Len(db[last.node].mail) = Len(last.before.mail) + 1
                /\ \E i \in Notices : Notices = {i} /\ trace[i].to = Id(a)
        ELSE /\ MailCommits = {}
             /\ Notices = {}
             /\ db[last.node].mail = last.before.mail

\* u1 wrote to "Al" and the mail was stored for u1
C17_Witness ==
    /\ SMStep
    /\ last.text = T_SMmixed
    /\ MailCommits # {}
    /\ \E i \in 1..Len(db[last.node].mail) : db[last.node].mail[i].recipient = Id("u1")

-----------------------------------------------------------------------------
(* Urgent bulletins between two peers: u1 posts at n1 to the boards Urgent,*)
(* General and News, through the bulletin menu and with the PB quick       *)
(* command, when the radio is idle.                                        *)

UrgentTalk == {<<"n1", "u1", t>> : t \in {T_PBurgent, T_PB, T_b, T_u, T_g, T_p, T_a, T_end}}

UserSendsUrgent == Quiescent /\ Says(UrgentTalk)

NextUrgent == UserSendsUrgent \/ RadioDelivers

SpecUrgent == InitRT /\ [][NextUrgent]_vars

\* the indices of the effects of the last step that stored a bulletin
BulletinCommits == {i \in Commits : trace[i].tag = "insert_bulletin"}

\* the indices of the texts the last step sent to the broadcast address
Broadcasts == {j \in 1..Len(trace) : trace[j].ev = "send" /\ trace[j].to = BROADCAST_NUM}

\* C18: a user's step that stores a bulletin on the board Urgent sends the urgent
\* notification to the broadcast address, which is not a replication line, and sends
\* every peer the BULLETIN| line; a step that stores a bulletin on another board sends
\* nothing to the broadcast address.
C18_UrgentNotice ==
    UserStep =>
        \A i \in BulletinCommits :
            IF Lower(trace[i].rows[1].board) = Urgent
            THEN /\ Broadcasts # {}
                 /\ \A j \in Broadcasts : trace[j].tag = UrgentNotice
                 /\ \A p \in Range(bbs_nodes[last.node]) :
                       \E j \in LinesFor(p) : StartsWith(trace[j].text, P_BULLETIN)
            ELSE Broadcasts = {}

\* u1 ended the body of a bulletin for the board Urgent in the bulletin menu
C18_Witness ==
    /\ UserStep
    /\ last.prev.command = "BULLETIN_POST_CONTENT"
    /\ \E i \in BulletinCommits : Lower(trace[i].rows[1].board) = Urgent
    /\ Broadcasts # {}
    /\ bbs_nodes[last.node] # <<>>

-----------------------------------------------------------------------------
(* Boards: u1 posts at n1 to the board Urgent under three spellings and to *)
(* the board News, and checks boards with the CB quick command, from the   *)
(* menus and without a session.                                            *)

T_PBurgentLow == <<"P","B",",",",","u","r","g","e","n","t",",",",","a",",",",","c">>
T_PBurgentUp == <<"P","B",",",",","U","R","G","E","N","T",",",",","a",",",",","c">>
T_CBgeneral == <<"C","B",",",",","g","e","n","e","r","a","l">>
T_CBurgentUp == <<"c","b",",",",","U","R","G","E","N","T">>
T_CBnews == <<"C","B",",",",","N","e","w","s">>

BoardTalk == {<<"n1", "u1", t>> : t \in {T_PBurgent, T_PBurgentLow, T_PBurgentUp, T_PB,
                                         T_CBgeneral, T_CBurgentUp, T_CBnews, T_b}}

NextBoard == Says(BoardTalk)

SpecBoard == InitRead /\ [][NextBoard]_vars

\* the last step was a CB quick command
CBStep == UserStep /\ StartsWith(Lower(Strip(last.text)), <<"c","b",",",",">>)

\* the boards that the CB command of the last step names, letter case aside
CBBoards == {b \in Range(boards) :
                /\ Len(SplitMax(Strip(last.text), Commas, 1)) = 2
                /\ Lower(b) = Lower(Strip(SplitMax(Strip(last.text), Commas, 1)[2]))}

\* the bulletins stored on board b, letter case aside, before the last step
OnBoardBefore(b) ==
    {i \in 1..Len(last.before.bulletins) : Lower(last.before.bulletins[i].board) = Lower(b)}

\* C19: a CB command that names one of the four boards, in any letter case, while the
\* board holds no bulletin, is answered with "No bulletins available on <Board>
\* board." and nothing else, and leaves the session of the sender as it was.
C19_EmptyBoard ==
    CBStep =>
        \A b \in CBBoards :
            OnBoardBefore(b) = {} =>
                /\ last.exc = ""
                /\ Len(trace) = 1
                /\ Answered("No bulletins available on {board_name} board.")
                /\ user_states[last.node][last.from] = last.prev

\* u1 checked the empty board General from the BBS menu while the node held bulletins
C19_Witness ==
    /\ CBStep
    /\ last.text = T_CBgeneral
    /\ last.prev.command = "MENU"
    /\ last.before.bulletins # <<>>
    /\ OnBoardBefore(General) = {}

\* the three spellings of the board Urgent
UrgentNames == {<<"u","r","g","e","n","t">>, <<"U","r","g","e","n","t">>,
                <<"U","R","G","E","N","T">>}

\* C20: get_bulletins called with any of the three spellings of Urgent returns every
\* bulletin stored under any of the three, and no bulletin of another board.
C20_BoardNoCase ==
    \A n \in Nodes : \A b \in UrgentNames :
        \A i \in 1..Len(db[n].bulletins) :
            (db[n].bulletins[i].board \in UrgentNames)
                <=> (db[n].bulletins[i] \in Range(get_bulletins(World(n), b)))

\* n1 holds two bulletins of the board Urgent under different spellings
C20_Witness ==
    \E i, j \in 1..Len(db["n1"].bulletins) :
        /\ db["n1"].bulletins[i].board \in UrgentNames
        /\ db["n1"].bulletins[j].board \in UrgentNames
        /\ db["n1"].bulletins[i].board # db["n1"].bulletins[j].board

-----------------------------------------------------------------------------
(* The channel directory in the full mesh: u1 posts a channel at n1 with   *)
(* the CHP quick command, written with commas and written with bars, and   *)
(* walks the channel directory from the BBS menu.                          *)

T_c == <<"c">>
T_v == <<"v">>
T_CHPcommas == <<"C","H","P",",",",","n",",",",","u">>
T_CHL == <<"C","H","L">>

ChanTalk == {<<"n1", "u1", t>> : t \in {T_CHPcommas, T_CHP, T_CHL, T_b, T_c, T_p, T_v, T_a, T_1}}

UserSendsChan == Quiescent /\ Says(ChanTalk)

NextChan == UserSendsChan \/ RadioDelivers

SpecChan == InitFed /\ [][NextChan]_vars

\* the fields of the last text between its double commas
CHPFields == Split(Strip(last.text), Commas)

HasChannel(d, name, url) ==
    \E i \in 1..Len(d.channels) : d.channels[i].name = name /\ d.channels[i].url = url

\* C21: a message CHP,,{name},,{url} of a user adds a channel with that name and that
\* connection descriptor to the store of the node and sends the line
\* CHANNEL|{name}|{url} to every peer of the node.
C21_PostChannel ==
    (/\ UserStep
     /\ Len(CHPFields) = 3
     /\ Lower(CHPFields[1]) = <<"c","h","p">>)
    => /\ HasChannel(db[last.node], CHPFields[2], CHPFields[3])
       /\ \A p \in Range(bbs_nodes[last.node]) :
             \E j \in LinesFor(p) :
                 trace[j].text = P_CHANNEL \o CHPFields[2] \o Bar \o CHPFields[3]

\* C22: an address whose session is {CHANNEL_DIRECTORY, step 1} and that sends "P"
\* gets the session {CHANNEL_DIRECTORY, step 3}.
C22_DirectoryFlow ==
    (/\ UserStep
     /\ last.prev = [command |-> "CHANNEL_DIRECTORY", step |-> 1]
     /\ Lower(Unrepeat(Strip(last.text))) = T_p)
    => user_states[last.node][last.from] = [command |-> "CHANNEL_DIRECTORY", step |-> 3]

-----------------------------------------------------------------------------
(* Quick commands in every session: u1 talks to n1, which has no peers,    *)
(* and types a quick command whatever the node asked for.                  *)

QuickTalk == {<<"n1", "u1", t>> : t \in {T_SM, T_PB, T_CM, T_CBnews, T_CHP, T_CHL, T_b, T_m, T_s,
                                         T_g, T_p, T_r, T_al, T_a, T_1}}

\* u1 types what the node asked for, or a quick command
NextQuick ==
    \E x \in {y \in QuickTalk : Fits(user_states[y[1]][y[2]], y[3]) \/ Quick(y[3])} :
        Receive(x[1], x[2], Id(x[1]), x[3])

SpecQuick == InitRead /\ [][NextQuick]_vars

\* the text as process_message compares it with the quick-command prefixes
QuickText(t) == Unrepeat(Strip(Lower(t)))

\* the handler of the quick command a text begins with
QuickHandler(t) ==
    CASE StartsWith(QuickText(t), <<"s","m",",",",">>) -> "handle_send_mail_command"
      [] StartsWith(QuickText(t), <<"c","m">>) -> "handle_check_mail_command"
      [] StartsWith(QuickText(t), <<"p","b",",",",">>) -> "handle_post_bulletin_command"
      [] StartsWith(QuickText(t), <<"c","b",",",",">>) -> "handle_check_bulletin_command"
      [] StartsWith(QuickText(t), <<"c","h","p",",",",">>) -> "handle_post_channel_command"
      [] StartsWith(QuickText(t), <<"c","h","l">>) -> "handle_list_channels_command"
      [] OTHER -> ""

\* C23: a message of a user that begins with a quick-command prefix is handed to the
\* handler of that quick command and to no other, whatever the session of the
\* sender; after an SM or a PB command the session of the sender is the one it had.
C23_QuickBypass ==
    (UserStep /\ QuickHandler(last.text) # "")
    => /\ last.hd = <<[fn |-> QuickHandler(last.text), step |-> 0]>>
       /\ QuickHandler(last.text) \in {"handle_send_mail_command", "handle_post_bulletin_command"}
             => user_states[last.node][last.from] = last.prev

\* u1 posted a bulletin with PB while the node was waiting for the body of a mail
C23_Witness ==
    /\ UserStep
    /\ last.text = T_PB
    /\ last.prev.command = "MAIL"
    /\ last.prev.step = 7
    /\ Committed("insert_bulletin")
    /\ user_states[last.node][last.from] = last.prev

-----------------------------------------------------------------------------
(* Numeric selections, in the runs of SpecRead: u1 and u2 answer the list  *)
(* of their mail with a number or with a letter.                           *)

\* the sessions whose step handler reads the message as a number
NumericStep(st) ==
    \/ st.command = "MAIL" /\ st.step \in {2, 6}
    \/ st.command = "BULLETIN_READ"
    \/ st.command = "CHANNEL_DIRECTORY" /\ st.step = 2
    \/ st.command \in {"CHECK_MAIL", "CHECK_BULLETIN", "CHECK_CHANNEL", "LIST_CHANNELS"}
       /\ st.step = 1

\* the number n selects something in session st of address a, the store being d
InRange(st, d, a, n) ==
    CASE st.command = "MAIL" /\ st.step = 2 ->
            \E i \in 1..Len(d.mail) : d.mail[i].id = n /\ d.mail[i].recipient = Id(a)
      [] st.command = "MAIL" ->
            0 - Len(st.nodes) <= n /\ n < Len(st.nodes)
      [] st.command = "BULLETIN_READ" ->
            \E i \in 1..Len(d.bulletins) : d.bulletins[i].id = n
      [] st.command = "CHANNEL_DIRECTORY" ->
            0 <= n /\ n < Len(d.channels)
      [] st.command = "CHECK_MAIL" -> 1 <= n /\ n <= Len(GetList(st, "mail"))
      [] st.command = "CHECK_BULLETIN" -> 1 <= n /\ n <= Len(GetList(st, "bulletins"))
      [] OTHER -> 1 <= n /\ n <= Len(GetList(st, "channels"))

\* the last step gave the step handler of a numeric step a text that is no number,
\* or a number that selects nothing
BadSelection ==
    /\ UserStep
    /\ NumericStep(last.prev)
    /\ last.hd = <<StepHandler(last.prev)>>
    /\ \/ ~IsInt(Unrepeat(Strip(last.text)))
       \/ ~InRange(last.prev, last.before, last.from, ToInt(Unrepeat(Strip(last.text))))

\* C24: a step that expects a number and is given a text that is no number, or a
\* number that selects nothing, sends its sender a text, and leaves the session as
\* it was, or at step 1, or cleared; no exception is left to the caller.
C24_InvalidSelection ==
    BadSelection
    => /\ \E i \in 1..Len(trace) : trace[i].ev = "send" /\ trace[i].to = Id(last.from)
       /\ last.exc = ""
       /\ \/ user_states[last.node][last.from] = last.prev
          \/ user_states[last.node][last.from] = NoState
          \/ user_states[last.node][last.from].step = 1

-----------------------------------------------------------------------------
(* Exceptions: u1 talks to n1, which has no peers, posts on the News board *)
(* and reads it from the bulletin menu, types a menu letter where the node *)
(* waits for a bulletin number, and asks for a board that does not exist.  *)

T_n == <<"n">>
T_CBnone == <<"C","B",",",",","z","z">>

ContainTalk == {<<"n1", "u1", t>> : t \in {T_CBnone, T_CBnews, T_PB, T_b, T_n, T_r, T_q, T_u, T_1, T_2}}

NextContain == \E x \in ContainTalk : Receive(x[1], x[2], Id(x[1]), x[3])

SpecContain == InitRead /\ [][NextContain]_vars

\* C25: whatever the session of the sender and whatever the text, on_receive ends
\* the handling of a user's message without an exception that reaches its caller.
C25_Contained == UserStep => last.exc = ""

-----------------------------------------------------------------------------
(* Lines that cannot be decoded: n2, the peer of n1, sends n1 replication  *)
(* lines, some of them cut short after the second field.                   *)

L_MAIL_SHORT == <<"M","A","I","L","|","u1","|","A","L">>
L_BULLETIN_SHORT == <<"B","U","L","L","E","T","I","N","|","N","e","w","s","|","A","L">>

ShortLines == {L_MAIL, L_BULLETIN, L_DELETE_MAIL_K5, L_DELETE_BULLETIN, L_MAIL_SHORT,
               L_BULLETIN_SHORT}

PeerSendsShort == \E t \in ShortLines : Receive("n1", "n2", Id("n1"), t)

NextShort == PeerSendsShort

SpecShort == InitRT /\ [][NextShort]_vars

\* a creation line with fewer fields than process_message reads from it
Undecodable(t) ==
    \/ StartsWith(t, P_BULLETIN) /\ Len(Split(t, Bar)) < 6
    \/ StartsWith(t, P_MAIL) /\ Len(Split(t, Bar)) < 7

\* C26: a peer's line with a replication prefix and too few fields leaves the store
\* and the session of its sender as they were, sends nothing, and ends without an
\* exception that reaches the caller of on_receive.
C26_Dropped ==
    (AppliedLine /\ Undecodable(last.text))
    => /\ db[last.node] = last.before
       /\ user_states[last.node][last.from] = last.prev
       /\ trace = <<>>
       /\ last.exc = ""

-----------------------------------------------------------------------------
(* Transport failure in the full mesh: u1 creates mail at n1 and deletes   *)
(* it, while interface.sendText fails for some of the peers of n1.         *)

\* on_receive runs at node n on a packet from a user while every sendText to a
\* destination of down fails
HandleDown(n, packet, down) ==
    \E w \in {on_receive([World(n) EXCEPT !.down = down], packet)} :
    \E newlinks \in {Carry(n, w.tr, 1)} :
        /\ Bounded(w, newlinks)
        /\ db' = [db EXCEPT ![n] = w.db]
        /\ user_states' = [user_states EXCEPT ![n] = w.us]
        /\ uuid' = w.uuid
        /\ trace' = w.tr
        /\ links' = newlinks
        /\ last' = [kind |-> "packet", node |-> n, from |-> packet.from, to |-> packet.to,
                    text |-> packet.text, hops |-> 0, src |-> <<>>,
                    peer |-> packet.from \in Range(bbs_nodes[n]),
                    prev |-> user_states[n][packet.from], before |-> db[n],
                    exc |-> w.exc, hd |-> w.hd, ret |-> w.ret]
        /\ UNCHANGED <<bbs_nodes, allowed_nodes, hist>>

DownTalk == {T_SMself, T_CM, T_1, T_d}

\* u1 types when the radio is idle
UserSendsDown ==
    \E x \in {y \in DownTalk \X SUBSET {Id("n2"), Id("n3")} :
                 Quiescent /\ Fits(user_states["n1"]["u1"], y[1])} :
        HandleDown("n1", [from |-> "u1", to |-> Id("n1"), text |-> x[1]], x[2])

NextDown == UserSendsDown \/ RadioDelivers

SpecDown == InitFed /\ [][NextDown]_vars

\* the calls of sendText that handed peer p the line text, or failed to
Attempts(p, text) ==
    {j \in 1..Len(trace) : /\ trace[j].ev \in {"send", "fail"}
                           /\ trace[j].tag = "line"
                           /\ trace[j].to = Id(p)
                           /\ trace[j].text = text}

\* the mutation of commit c is in the store of node n
InStore(c, n) ==
    CASE c.tag = "insert_mail" -> \E i \in 1..Len(db[n].mail) : db[n].mail[i] = c.rows[1]
      [] c.tag = "insert_bulletin" ->
            \E i \in 1..Len(db[n].bulletins) : db[n].bulletins[i] = c.rows[1]
      [] c.tag = "delete_mail" ->
            \A i \in 1..Len(db[n].mail) : db[n].mail[i].unique_id # c.rows[1].unique_id
      [] OTHER -> TRUE

FailedTo(p) == \E j \in 1..Len(trace) : trace[j].ev = "fail" /\ trace[j].to = Id(p)

LookupMiss ==
    /\ UserStep
    /\ \/ last.prev.command = "MAIL" /\ last.prev.step = 2
       \/ last.prev.command = "BULLETIN_READ"
    /\ last.hd = <<StepHandler(last.prev)>>
    /\ IsInt(Unrepeat(Strip(last.text)))
    /\ ~InRange(last.prev, last.before, last.from, ToInt(Unrepeat(Strip(last.text))))

\* C28: a mail number or a bulletin number that selects no record the sender may read
\* is answered with a text to the sender, without an exception that reaches the
\* caller; after a mail number the session of the sender is cleared.
C28_NotFound ==
    LookupMiss
    => /\ \E i \in 1..Len(trace) : trace[i].ev = "send" /\ trace[i].to = Id(last.from)
       /\ last.exc = ""
       /\ last.prev.command = "MAIL" => user_states[last.node][last.from] = NoState

-----------------------------------------------------------------------------
(* The refusal: n1 lets u1 alone post to the Urgent board; u1 and u2 walk   *)
(* the bulletin menu to the Urgent board and choose Post, and u1 posts.    *)

RefuseTalk == {<<"n1", "u1", t>> : t \in {T_b, T_u, T_p, T_a, T_end}}
              \cup {<<"n1", "u2", t>> : t \in {T_b, T_u, T_p}}

NextRefuse == Says(RefuseTalk)

SpecRefuse == InitGate /\ [][NextRefuse]_vars

\* the last step was the choice Post on the Urgent board by an address outside a
\* non-empty allow-list
RefusedPost ==
    /\ UserStep
    /\ allowed_nodes[last.node] # <<>>
    /\ last.from \notin Range(allowed_nodes[last.node])
    /\ last.prev.command = "BULLETIN_ACTION"
    /\ Lower(last.prev.board) = Urgent
    /\ Lower(Unrepeat(Strip(last.text))) = T_p

Refusal == "You don't have permission to post to this board."

\* C29 as stated: the address is sent the refusal, no bulletin is stored, and its
\* session becomes the board selection, {command: BULLETIN_MENU, step: 1}.
C29_RefusalToBoards ==
    RefusedPost
    => /\ Answered(Refusal)
       /\ db[last.node] = last.before
       /\ user_states[last.node][last.from] = [command |-> "BULLETIN_MENU", step |-> 1]

\* C29, amended: the address is sent the refusal and then the BBS menu, no bulletin
\* is stored, and its session becomes the BBS menu, {command: MENU, menu: bbs,
\* step: 1}.
C29_Refusal ==
    RefusedPost
    => /\ Answered(Refusal)
       /\ Answered("Menu")
       /\ db[last.node] = last.before
       /\ Commits = {}
       /\ user_states[last.node][last.from] = [command |-> "MENU", menu |-> "bbs", step |-> 1]

\* u2 was refused on the Urgent board, which held a bulletin of u1
C29_Witness ==
    /\ RefusedPost
    /\ last.from = "u2"
    /\ last.before.bulletins # <<>>
    /\ last.prev.board = UrgentBoard
    /\ last.text = T_p
    /\ Answered(Refusal)

-----------------------------------------------------------------------------
(* Bodies: u1 talks to n1, which has no peers, composes a mail and a       *)
(* bulletin through the menus, and sends body lines of one and of two      *)
(* characters and the end marker in either letter case.                    *)

T_ax == <<"a","x">>
T_ENDupper == <<"E","N","D">>

BodyTexts == {T_a, T_ax, T_end, T_ENDupper}

BodyTalk == {<<"n1", "u1", t>> : t \in {T_b, T_m, T_s, T_g, T_p, T_al} \cup BodyTexts}

\* u1 types a body line or an end marker when the node waits for the body, and
\* what Fits says otherwise
BodyFits(st, t) ==
    IF Composing(st) THEN t \in BodyTexts
    ELSE Fits(st, t) /\ t \notin {T_ax, T_ENDupper}

NextBody ==
    \E x \in {y \in BodyTalk : BodyFits(user_states[y[1]][y[2]], y[3])} :
        Receive(x[1], x[2], Id(x[1]), x[3])

SpecBody == InitRead /\ [][NextBody]_vars

\* the last step gave the body step of a mail or of a bulletin a line
BodyStep ==
    /\ UserStep
    /\ Composing(last.prev)
    /\ last.hd = <<StepHandler(last.prev)>>

\* C30: a line given to the body step that is not END, in any letter case, is added
\* unchanged to the body of the session, followed by one newline, and nothing else
\* of the session changes; a line that is END commits the body of the session as
\* the content of one mail or one bulletin.
C30_BodyAccumulation ==
    BodyStep =>
        IF Lower(last.text) = END
        THEN \E i \in Commits :
                /\ trace[i].tag \in {"insert_mail", "insert_bulletin"}
                /\ trace[i].rows[1].content = last.prev.content
        ELSE user_states[last.node][last.from] =
                [last.prev EXCEPT !.content = @ \o last.text \o NL]

-----------------------------------------------------------------------------
(* Replies: n2, a peer of n1, sends n1 a mail for u1 and the line that     *)
(* deletes it; u1 reads the mail at n1, chooses Reply, and composes.       *)

ReplyTalk == {<<"n1", "u1", t>> : t \in {T_CM, T_1, T_r, T_a, T_end}}

ReplyLines == {<<"n1", "n2", t>> : t \in {L_MAIL, L_DELETE_MAIL_K5}}

\* n1 hears a text that u1 types in the session it has, or a line of n2
HearsReply ==
    \E x \in {y \in ReplyTalk : Fits(user_states[y[1]][y[2]], y[3])} \cup ReplyLines :
        Receive(x[1], x[2], Id(x[1]), x[3])

NextReply == HearsReply \/ RadioDelivers

SpecReply == InitRT /\ [][NextReply]_vars

\* the last step gave the end marker to the body step of a reply
ReplyEnd ==
    /\ UserStep
    /\ last.prev.command = "MAIL"
    /\ last.prev.step = 7
    /\ "reply_to_mail_id" \in DOMAIN last.prev
    /\ Lower(last.text) = END

\* C37: the end marker of a reply does not fail and stores one mail whose recipient
\* is the sender of the mail replied to, also when a peer's DELETE_MAIL line removed
\* that mail after the Reply choice; no stored mail has an absent recipient.
C37_ReplyAddressing ==
    /\ \A n \in Nodes : \A i \in 1..Len(db[n].mail) : db[n].mail[i].recipient # NoneT
    /\ ReplyEnd =>
        /\ last.exc = ""
        /\ \E i \in Commits :
            /\ trace[i].tag = "insert_mail"
            /\ trace[i].rows[1].recipient = Id("u1")

\* the records of the store of a node
Records(d) == Len(d.mail) + Len(d.bulletins)

\* the last step gave a line that is not a quick command to a session that
\* composes a mail or a bulletin: its subject step or its body step
ComposeStep ==
    /\ UserStep
    /\ \/ Composing(last.prev)
       \/ last.prev.command = "BULLETIN_POST"
       \/ (last.prev.command = "MAIL" /\ last.prev.step = 5)
    /\ ~Quick(last.text)

\* C31: the end marker given to the body step stores exactly one record, the mail
\* or the bulletin composed; every other line given to a composing session, the
\* exit key among them, stores none.
C31_OneRecord ==
    ComposeStep =>
        IF Composing(last.prev) /\ Lower(last.text) = END
        THEN /\ Cardinality(Commits) = 1
             /\ \A i \in Commits : trace[i].tag \in {"insert_mail", "insert_bulletin"}
             /\ Records(db[last.node]) = Records(last.before) + 1
        ELSE /\ Commits = {}
             /\ db[last.node] = last.before

\* what node n does with text t sent to it by address a in the current state
Outcome(n, a, t) == on_receive(World(n), [from |-> a, to |-> Id(n), text |-> t])

\* two outcomes that leave the same store and the same sessions, send the same
\* messages and fail in the same way
SameOutcome(v, w) == v.db = w.db /\ v.us = w.us /\ v.tr = w.tr /\ v.exc = w.exc

FirstChars == {"1", "a", "b", "r", "d"}

\* a session that waits for free text: a short name, a subject or a body line
FreeText(st) ==
    \/ Composing(st)
    \/ st.command = "BULLETIN_POST"
    \/ (st.command = "MAIL" /\ st.step \in {3, 5})

\* C32: in every session state that waits for a selection, a text of two characters
\* that ends in x or X is handled exactly as its first character alone.
C32_TrailingSelector ==
    ~FreeText(user_states["n1"]["u1"]) =>
        \A c \in FirstChars : \A x \in {"x", "X"} :
            SameOutcome(Outcome("n1", "u1", <<c, x>>), Outcome("n1", "u1", <<c>>))

-----------------------------------------------------------------------------
(* Board names: u1 posts at n1 through the bulletin menu and with the PB   *)
(* quick command, also to a board name that is not on the list, and n2, a  *)
(* peer of n1, sends n1 a BULLETIN line for such a name.                   *)

T_PBnone == <<"P","B",",",",","z","z",",",",","a",",",",","c">>

L_BULLETIN_NONE == <<"B","U","L","L","E","T","I","N","|","z","z","|","A","L","|","a","|","c","|","k6">>

NameTalk == {<<"n1", "u1", t>> : t \in {T_PBnone, T_PB, T_b, T_g, T_p, T_a, T_end}}

\* n1 hears, when no line is in flight, a text that u1 types in the session it has,
\* or the line of n2
HearsName ==
    /\ Quiescent
    /\ \E x \in {y \in NameTalk : Fits(user_states[y[1]][y[2]], y[3])}
                \cup {<<"n1", "n2", L_BULLETIN_NONE>>} :
          Receive(x[1], x[2], Id(x[1]), x[3])

NextName == HearsName \/ RadioDelivers

SpecName == InitRT /\ [][NextName]_vars

\* C33: the board of every stored bulletin is, letter case aside, one of the fixed
\* boards General, Info, News and Urgent.
C33_FixedBoards ==
    \A n \in Nodes : \A i \in 1..Len(db[n].bulletins) :
        Lower(db[n].bulletins[i].board) \in {Lower(boards[k]) : k \in 1..Len(boards)}

-----------------------------------------------------------------------------
(* The exit key: u1 walks through the menus of n1, which has the peer n2,  *)
(* composes a mail and a bulletin, and sends x, alone or doubled and in    *)
(* either letter case, in every session on the way.                        *)

ExitTexts == {<<"x">>, <<"X">>, <<"x","x">>, <<"X","X">>}

ExitTalk == {<<"n1", "u1", t>> : t \in {T_b, T_m, T_s, T_g, T_p, T_a, T_al, T_end} \cup ExitTexts}

\* u1 types the exit key in any session, and what Fits says otherwise
UserSendsExit ==
    /\ Quiescent
    /\ \E x \in {y \in ExitTalk : y[3] \in ExitTexts \/ Fits(user_states[y[1]][y[2]], y[3])} :
        Receive(x[1], x[2], Id(x[1]), x[3])

NextExit == UserSendsExit \/ RadioDelivers

SpecExit == InitRT /\ [][NextExit]_vars

\* the last step gave a node the exit key, in a session that is not one of the
\* JS8Call menu or of the group messages
ExitStep ==
    /\ UserStep
    /\ Lower(last.text) \in {<<"x">>, <<"x","x">>}
    /\ last.prev.command \notin {"JS8CALL_MENU", "GROUP_MESSAGES"}

\* C34: the exit key leaves the sender in {MAIN_MENU, step 1}, commits nothing to
\* the store and sends no line to a peer, whatever the session held.
C34_ExitKey ==
    ExitStep =>
        /\ user_states[last.node][last.from] = [command |-> "MAIN_MENU", step |-> 1]
        /\ db[last.node] = last.before
        /\ \A i \in 1..Len(trace) : trace[i].ev # "commit" /\ trace[i].tag # "line"

\* u1 sent XX while composing a mail whose body already had a line
C34_Witness ==
    /\ ExitStep
    /\ last.text = <<"X","X">>
    /\ last.prev.command = "MAIL"
    /\ last.prev.step = 7
    /\ last.prev.content # <<>>
    /\ last.hd = <<[fn |-> "handle_help_command", step |-> 0]>>

\* the indices of the effects of the last step that stored a bulletin on the board
\* Urgent
UrgentCommits == {i \in BulletinCommits : Lower(trace[i].rows[1].board) = Urgent}

\* the indices of the urgent notifications the last step sent to the broadcast
\* address
UrgentNotices == {j \in Broadcasts : trace[j].tag = UrgentNotice}

\* C35: a step of a node, a user's post or a peer's BULLETIN line applied, sends
\* the broadcast address as many urgent notifications as it stores urgent
\* bulletins: one for each.
C35_OneNotice ==
    last.kind = "packet" => Cardinality(UrgentNotices) = Cardinality(UrgentCommits)

-----------------------------------------------------------------------------
(* Reading a board: n1, which has no peers, holds bulletins on the boards  *)
(* News and Urgent, posted by u1 with the PB quick command; u1 opens       *)
(* either board from the bulletin menu and sends a bulletin number.        *)

ShowTalk == {<<"n1", "u1", t>> : t \in {T_PB, T_PBurgent, T_b, T_n, T_u, T_r, T_1, T_2}}

NextShow == Says(ShowTalk)

SpecShow == InitRead /\ [][NextShow]_vars

\* the last step gave a number to the read step of the bulletin menu
ShowStep ==
    /\ UserStep
    /\ last.prev.command = "BULLETIN_READ"
    /\ last.hd # <<>>
    /\ last.hd[1] = [fn |-> "handle_bb_steps", step |-> 3]

\* C36: the bulletin the read step displays is a bulletin of the board the session
\* holds, the board the user selected.
C36_ShownFromBoard ==
    ShowStep =>
        \A i \in 1..Len(trace) :
            trace[i].tag = "From: {sender_short_name}" =>
                Lower(trace[i].rows[1].board) = Lower(last.prev.board)

\* C38: a step that applies a replication line from a peer leaves every session of
\* the node as it was: the peer's and every user's.
C38_SessionsKept ==
    [][(last'.kind = "packet" /\ last'.peer /\ IsSyncText(last'.text))
          => user_states' = user_states]_vars

\* n1 applied a line of n2 that changed its store while u1 was composing a reply
C38_Witness ==
    /\ AppliedLine
    /\ last.node = "n1"
    /\ db["n1"] # last.before
    /\ user_states["n1"]["u1"].command = "MAIL"
    /\ user_states["n1"]["u1"].step = 7
    /\ user_states["n1"]["n2"] = NoState

-----------------------------------------------------------------------------
(* Traffic a node ignores: u1 sends texts to n1, to the broadcast address  *)
(* and to n2, all of which the radio of n1 hears, and n2, a peer of n1,    *)
(* sends n1 a replication line and texts that are none.                    *)

IgnoreUser == {<<"u1", to, t>> : to \in {Id("n1"), BROADCAST_NUM, Id("n2")},
                                 t \in {T_b, T_m, T_SMself}}

IgnorePeer == {<<"n2", to, t>> : to \in {Id("n1"), BROADCAST_NUM}, t \in {T_m, T_SMself, L_MAIL}}

\* the radio of n1 hears a text of u1 or of n2 when no line is in flight
HearsIgnore ==
    \E x \in {y \in IgnoreUser \cup IgnorePeer : Quiescent} : Receive("n1", x[1], x[2], x[3])

NextIgnore == HearsIgnore \/ RadioDelivers

SpecIgnore == InitRT /\ [][NextIgnore]_vars

\* the last step was a text the node has to ignore: from an address outside the
\* peer list and not addressed to the node itself, or from a peer and without a
\* replication prefix
Ignored ==
    /\ last.kind = "packet"
    /\ \/ ~last.peer /\ last.to # Id(last.node)
       \/ last.peer /\ ~IsSyncText(last.text)

\* C39: a step on a text the node has to ignore changes no session and no record
\* of any node and sends nothing: no answer, no notification and no line.
C39_IgnoredTraffic ==
    [][Ignored' => /\ user_states' = user_states
                   /\ db' = db
                   /\ links' = links
                   /\ trace' = <<>>]_vars

\* n1 heard a quick command of u1 addressed to everyone while u1 was in the mail
\* menu of n1, and n1 held a mail
C39_Witness ==
    /\ Ignored
    /\ last.from = "u1"
    /\ last.to = BROADCAST_NUM
    /\ last.text = T_SMself
    /\ user_states["n1"]["u1"].command = "MAIL"
    /\ db["n1"].mail # <<>>

=============================================================================
